---- MODULE Spec2Model ----
(***************************************************************************)
(* renfield-mcp-calendar: the tool layer of server.py over the account     *)
(* registry (_accounts), the lazily filled backend cache (_backends) and   *)
(* the provider backends, which are external and answer each call either   *)
(* with a value or by raising.                                             *)
(*                                                                         *)
(* Conventions of the model                                                *)
(*   - Optional values (int | None) are sequences of length <= 1:          *)
(*     None is << >>, the id 1 is <<1>>.                                   *)
(*   - A datetime is a count of seconds since 2026-02-13T00:00:00 (naive   *)
(*     local time, as every backend strips the timezone).                  *)
(*   - An f-string is the sequence of its literal and interpolated parts.  *)
(*   - The registry is a sequence of accounts: a Python dict keeps its     *)
(*     insertion order, and list(_accounts.keys()) is that order.          *)
(***************************************************************************)
EXTENDS Integers, Sequences, FiniteSets, TLC

\* ------------------------------------------------------------------------
\* Bounds of the model
\* ------------------------------------------------------------------------
MaxAccounts == 2
MaxEvents == 2

\* ------------------------------------------------------------------------
\* Optional values
\* ------------------------------------------------------------------------
None == << >>

Some(x) == << x >>

\* ------------------------------------------------------------------------
\* Dates and times
\* ------------------------------------------------------------------------
\* datetime(2026, 2, 13 + d, h, m, s)
DateTime(d, h, m, s) == d * 86400 + h * 3600 + m * 60 + s

\* timedelta(hours=h)
Hours(h) == h * 3600

\* datetime.isoformat(): the text YYYY-MM-DDTHH:MM:SS, kept as its fields
\* <<day, hour, minute, second>>
isoformat(t) ==
    << t \div 86400, (t % 86400) \div 3600, (t % 3600) \div 60, t % 60 >>

\* The texts dateutil's parser accepts, with the datetime each denotes: a
\* date-only text is midnight of that date.
ParsableDates ==
    [ x \in {"2026-02-13", "2026-02-13T14:00:00", "2026-02-14T09:00:00"} |->
        CASE x = "2026-02-13" -> DateTime(0, 0, 0, 0)
          [] x = "2026-02-13T14:00:00" -> DateTime(0, 14, 0, 0)
          [] x = "2026-02-14T09:00:00" -> DateTime(1, 9, 0, 0) ]

\* Mutant of _parse_datetime: a text that is no date is read as the first day
_parse_datetime_lenient(value) ==
    IF value \in DOMAIN ParsableDates
    THEN [raised |-> FALSE, value |-> ParsableDates[value]]
    ELSE [raised |-> FALSE, value |-> ParsableDates["2026-02-13"]]

\* _parse_datetime: the parsed datetime, or a raised exception
_parse_datetime(value) ==
    IF value \in DOMAIN ParsableDates
    THEN [raised |-> FALSE, value |-> ParsableDates[value]]
    ELSE [raised |-> TRUE, error |-> "ParserError"]

\* The date/time texts a caller passes ("" is the omitted argument)
DateInputs == {"", "2026-02-13", "2026-02-14T09:00:00", "not-a-date"}

\* The readings of datetime.now()
Nows == { DateTime(0, 12, 0, 15) }

\* now.replace(hour=0, minute=0, second=0, microsecond=0)
StartOfDay(t) == DateTime(t \div 86400, 0, 0, 0)

\* dt.replace(hour=23, minute=59, second=59)
EndOfDay(t) == DateTime(t \div 86400, 23, 59, 59)

\* ------------------------------------------------------------------------
\* Accounts and the configuration file
\* ------------------------------------------------------------------------
VALID_TYPES == {"ews", "google", "caldav"}

VALID_VISIBILITIES == {"shared", "owner"}

\* CalendarAccount; config is the provider's key/value bag
CalendarAccount(name, label, type, config, visibility, owner_id) ==
    [name |-> name, label |-> label, type |-> type, config |-> config,
     visibility |-> visibility, owner_id |-> owner_id]

\* os.environ: the variables set in the server's process. The credentials
\* of the Exchange account are set, those of the CalDAV account are not.
environ == ("EWS_USER" :> "alice") @@ ("EWS_PASS" :> "secret")

\* os.environ.get(var, "")
environ_get(var) == IF var \in DOMAIN environ THEN environ[var] ELSE ""

\* entry.get(key, default) on a mapping of the YAML file
Get(entry, key, default) == IF key \in DOMAIN entry THEN entry[key] ELSE default

\* str.strip() and str.lower(), on the texts the configuration files hold
strip(text) == IF text = " " THEN "" ELSE text

lower(text) == IF text = "EWS" THEN "ews" ELSE text

\* int(raw_owner), on the owner ids the configuration files hold
int(text) == CASE text = "1" -> 1 [] text = "2" -> 2

\* The entries configuration files are written from: three that load, then
\* one without a name, one with a blank name, one of an unsupported type, one
\* of an unknown visibility, one owner-restricted without an owner, and one
\* Exchange account without its URL
RawPool ==
    << [name |-> "work", label |-> "Firmenkalender", type |-> "EWS",
        visibility |-> "owner", owner_id |-> "1", ews_url |-> "https://mail/EWS",
        username_env |-> "EWS_USER", password_env |-> "EWS_PASS"],
       [name |-> "family", label |-> "Familienkalender", type |-> "google",
        credentials_file |-> "/config/google.json"],
       [name |-> "verein", label |-> "Vereinskalender", type |-> "caldav",
        visibility |-> "owner", owner_id |-> "2", url |-> "https://cloud/dav",
        username_env |-> "CALDAV_USER", password_env |-> "CALDAV_PASS"],
       [type |-> "google", credentials_file |-> "/config/google.json"],
       [name |-> " ", type |-> "google", credentials_file |-> "/config/google.json"],
       [name |-> "garten", type |-> "outlook"],
       [name |-> "garten", type |-> "google", visibility |-> "private",
        credentials_file |-> "/config/google.json"],
       [name |-> "garten", type |-> "google", visibility |-> "owner",
        credentials_file |-> "/config/google.json"],
       [name |-> "garten", type |-> "ews", username_env |-> "EWS_USER",
        password_env |-> "EWS_PASS"] >>

\* The "calendars" lists of the configuration files: MaxAccounts entries at
\* most, taken in the order of RawPool, an entry possibly repeated
ConfigFiles ==
    { [i \in DOMAIN pick |-> RawPool[pick[i]]] :
        pick \in { p \in UNION { [1..n -> DOMAIN RawPool] : n \in 0..MaxAccounts } :
                     \A i, j \in DOMAIN p : i < j => p[i] <= p[j] } }

\* The credential variables an account refers to that the process lacks
\* (config.py 93-96, 107-110: one warning each)
UnsetEnv(name, config) ==
    LET unset(env_key) == environ_get(config[env_key]) = ""
    IN [k \in DOMAIN SelectSeq(<< "username_env", "password_env" >>, unset) |->
           << name, config[SelectSeq(<< "username_env", "password_env" >>, unset)[k]] >>]

\* Mutant of LoadEntry: the visibility of the entry is taken as it is
LoadEntryAnyVisibility(entry, seen_names) ==
    LET name == strip(Get(entry, "name", ""))
        cal_type == lower(strip(Get(entry, "type", "")))
        visibility == Get(entry, "visibility", "")
        owner_id == IF "owner_id" \in DOMAIN entry THEN Some(int(entry.owner_id)) ELSE None
        config == [k \in DOMAIN entry \ {"name", "label", "type", "visibility", "owner_id"} |->
                      entry[k]]
    IN IF \/ name = ""
          \/ name \in seen_names
          \/ cal_type \notin VALID_TYPES
          \/ cal_type = "ews" /\ ~({"ews_url", "username_env", "password_env"} \subseteq DOMAIN config)
          \/ cal_type = "google" /\ "credentials_file" \notin DOMAIN config
          \/ cal_type = "caldav" /\ ~({"url", "username_env", "password_env"} \subseteq DOMAIN config)
       THEN [raised |-> TRUE, error |-> << "Calendar '", name, "' is invalid" >>]
       ELSE [raised |-> FALSE,
             value |-> [account |-> CalendarAccount(name, Get(entry, "label", name), cal_type,
                                                    config, visibility, owner_id),
                        warnings |-> IF cal_type = "google" THEN << >>
                                     ELSE UnsetEnv(name, config)]]

\* One round of the loop of load_config (config.py 52-115): the account the
\* entry describes and the warnings about it, or the ValueError raised
LoadEntry(entry, seen_names) ==
    LET name == strip(Get(entry, "name", ""))
        cal_type == lower(strip(Get(entry, "type", "")))
        label == Get(entry, "label", name)
        visibility == Get(entry, "visibility", "shared")
        owner_id == IF "owner_id" \in DOMAIN entry THEN Some(int(entry.owner_id)) ELSE None
        config == [k \in DOMAIN entry \ {"name", "label", "type", "visibility", "owner_id"} |->
                      entry[k]]
        Fail(e) == [raised |-> TRUE, error |-> e]
    IN IF name = "" THEN Fail(<< "Calendar missing 'name' field" >>)
       ELSE IF name \in seen_names THEN Fail(<< "Duplicate calendar name: '", name, "'" >>)
       ELSE IF cal_type \notin VALID_TYPES
       THEN Fail(<< "Calendar '", name, "': unknown type '", cal_type, "'. Must be one of: " >>)
       ELSE IF visibility \notin VALID_VISIBILITIES
       THEN Fail(<< "Calendar '", name, "': invalid visibility '", visibility,
                    "'. Must be one of: " >>)
       ELSE IF visibility = "owner" /\ owner_id = None
       THEN Fail(<< "Calendar '", name, "': visibility 'owner' requires 'owner_id'" >>)
       ELSE IF cal_type = "ews" /\ "ews_url" \notin DOMAIN config
       THEN Fail(<< "Calendar '", name, "' (ews): 'ews_url' is required" >>)
       ELSE IF cal_type = "ews" /\ ~({"username_env", "password_env"} \subseteq DOMAIN config)
       THEN Fail(<< "Calendar '", name, "' (ews): 'username_env' and 'password_env' are required" >>)
       ELSE IF cal_type = "google" /\ "credentials_file" \notin DOMAIN config
       THEN Fail(<< "Calendar '", name, "' (google): 'credentials_file' is required" >>)
       ELSE IF cal_type = "caldav" /\ "url" \notin DOMAIN config
       THEN Fail(<< "Calendar '", name, "' (caldav): 'url' is required" >>)
       ELSE IF cal_type = "caldav" /\ ~({"username_env", "password_env"} \subseteq DOMAIN config)
       THEN Fail(<< "Calendar '", name, "' (caldav): 'username_env' and 'password_env' are required" >>)
       ELSE [raised |-> FALSE,
             value |-> [account |-> CalendarAccount(name, label, cal_type, config,
                                                    visibility, owner_id),
                        warnings |-> IF cal_type = "google" THEN << >>
                                     ELSE UnsetEnv(name, config)]]

\* Mutant of LoadEntries: an entry that fails is left out, the others load
RECURSIVE LoadEntriesLenient(_, _, _)
LoadEntriesLenient(entries, i, st) ==
    IF i > Len(entries) THEN [raised |-> FALSE, value |-> st.accounts, keys |-> st.keys,
                              warnings |-> st.warnings]
    ELSE LET one == LoadEntry(entries[i], { st.keys[k] : k \in DOMAIN st.keys })
         IN IF one.raised THEN LoadEntriesLenient(entries, i + 1, st)
            ELSE LoadEntriesLenient(entries, i + 1,
                                    [accounts |-> Append(st.accounts, one.value.account),
                                     keys |-> Append(st.keys, one.value.account.name),
                                     warnings |-> st.warnings \o one.value.warnings])

\* The loop of load_config over raw["calendars"], from its i-th entry on; st
\* carries the accounts dict (its values and its keys, in insertion order)
\* and the warnings logged. A raise ends the load: nothing is returned.
RECURSIVE LoadEntries(_, _, _)
LoadEntries(entries, i, st) ==
    IF i > Len(entries) THEN [raised |-> FALSE, value |-> st.accounts, keys |-> st.keys,
                              warnings |-> st.warnings]
    ELSE LET one == LoadEntry(entries[i], { st.keys[k] : k \in DOMAIN st.keys })
         IN IF one.raised THEN [raised |-> TRUE, error |-> one.error]
            ELSE LoadEntries(entries, i + 1,
                             [accounts |-> Append(st.accounts, one.value.account),
                              keys |-> Append(st.keys, one.value.account.name),
                              warnings |-> st.warnings \o one.value.warnings])

\* load_config, given the "calendars" list of the file (a missing file or
\* key is the empty list: both return {})
load_config(calendars) ==
    LoadEntries(calendars, 1, [accounts |-> << >>, keys |-> << >>, warnings |-> << >>])

\* The registries load_config returns for these files
Registries ==
    { load_config(f).value : f \in { g \in ConfigFiles : ~load_config(g).raised } }

\* list(accounts.keys())
Keys(accounts) == [i \in DOMAIN accounts |-> accounts[i].name]

\* name in accounts
HasKey(accounts, name) == \E i \in DOMAIN accounts : accounts[i].name = name

\* accounts[name]
Lookup(accounts, name) ==
    accounts[CHOOSE i \in DOMAIN accounts : accounts[i].name = name]

\* The calendar names a caller passes ("" is the omitted argument)
CalendarInputs == {"", "work", "family", "verein", "nonexistent"}

\* The requester ids a caller passes
UserIds == { None, Some(1), Some(2) }

\* ------------------------------------------------------------------------
\* Events
\* ------------------------------------------------------------------------
CalendarEvent(id, calendar, title, start, end, description, location, all_day) ==
    [id |-> id, calendar |-> calendar, title |-> title, start |-> start,
     end |-> end, description |-> description, location |-> location,
     all_day |-> all_day]

\* Mutant of _event_to_dict: start and end are written as dates
_event_to_dict_dates(event) ==
    [id |-> event.id, calendar |-> event.calendar, title |-> event.title,
     start |-> isoformat(StartOfDay(event.start)), end |-> isoformat(StartOfDay(event.end)),
     description |-> event.description, location |-> event.location,
     all_day |-> event.all_day]

_event_to_dict(event) ==
    [id |-> event.id, calendar |-> event.calendar, title |-> event.title,
     start |-> isoformat(event.start), end |-> isoformat(event.end),
     description |-> event.description, location |-> event.location,
     all_day |-> event.all_day]

\* ------------------------------------------------------------------------
\* The provider backends (external): what a call may answer
\* ------------------------------------------------------------------------
Raised(e) == [raised |-> TRUE, error |-> e]

Returned(v) == [raised |-> FALSE, value |-> v]

BackendErrors == {"Connection failed"}

\* The id of the k-th event a provider returns
EventId(k) == "e" \o ToString(k)

EventStarts == { DateTime(0, 14, 0, 0), DateTime(1, 9, 0, 0) }

\* What a provider may answer to a list_events call: it raises, or it
\* returns the events it found, given here by one value each (times), in
\* whatever order it found them
Answers(times) ==
    { Raised(e) : e \in BackendErrors } \cup
    { Returned(l) : l \in UNION { [1..m -> times] : m \in 0..MaxEvents } }

\* The number of events in the answers of one request
RECURSIVE Returns(_)
Returns(answers) ==
    IF answers = << >> THEN 0
    ELSE (IF Head(answers).raised THEN 0 ELSE Len(Head(answers).value)) + Returns(Tail(answers))

\* The answers of the n providers asked during one request, MaxEvents events
\* at most between them
AnswerSeqs(times) ==
    [n \in 0..MaxAccounts |->
        { a \in [1..n -> Answers(times)] : Returns(a) <= MaxEvents }]

ListAnswers == AnswerSeqs(EventStarts)

\* backend.list_events(start, end) of account cal: every backend stamps its
\* own account name on the events it builds (ews.py 68-77, google.py 105-114,
\* caldav_backend.py 94-103)
BackendListEvents(cal, answer) ==
    IF answer.raised THEN answer
    ELSE Returned([k \in DOMAIN answer.value |->
                      CalendarEvent(EventId(k), cal, "Meeting", answer.value[k],
                                    answer.value[k] + Hours(1), "", "", FALSE)])

\* ------------------------------------------------------------------------
\* State
\* ------------------------------------------------------------------------
VARIABLES
    _accounts,   \* the registry: name -> CalendarAccount, in insertion order
    _backends,   \* the backend cache: name -> backend handle
    request,     \* the tool request served last
    result,      \* what the tool returned for it
    calls,       \* the backend methods invoked while serving it, in order
    clock        \* the reading of datetime.now() taken last

vars == << _accounts, _backends, request, result, calls, clock >>

\* An empty dict
EmptyDict == [n \in {} |-> None]

\* One backend invocation of the log
Call(cal, method, outcome) == [calendar |-> cal, method |-> method, outcome |-> outcome]

\* One awaited invocation of the log: the handler issued it at step started
\* of the request and was resumed with its outcome at step finished
Awaited(cal, method, outcome, started, finished) ==
    [calendar |-> cal, method |-> method, outcome |-> outcome,
     started |-> started, finished |-> finished]

\* ------------------------------------------------------------------------
\* Backend factory and cache
\* ------------------------------------------------------------------------
\* Mutant of _init_backend: the constructor opens the connection, and raises
\* when the credentials of the account are not set
_init_backend_connecting(account) ==
    IF /\ account.type \in {"ews", "caldav"}
       /\ \/ environ_get(account.config["username_env"]) = ""
          \/ environ_get(account.config["password_env"]) = ""
    THEN Raised(<< "credentials not set" >>)
    ELSE Returned([class |-> account.type, name |-> account.name, config |-> account.config])

\* The constructors only store the name and the config (ews.py 19-22,
\* google.py 20-24, caldav_backend.py 19-22): nothing is connected yet
_init_backend(account) ==
    CASE account.type = "ews" ->
             Returned([class |-> "EWSBackend", name |-> account.name, config |-> account.config])
      [] account.type = "google" ->
             Returned([class |-> "GoogleCalendarBackend", name |-> account.name,
                       config |-> account.config])
      [] account.type = "caldav" ->
             Returned([class |-> "CalDAVBackend", name |-> account.name,
                       config |-> account.config])
      [] OTHER -> Raised(<< "Unknown backend type: ", account.type >>)

\* The object a constructor call makes: its identity (instance) is the
\* ordinal of its construction. The cache holds every backend constructed so
\* far and drops none, so the ordinal is the size of the cache plus one.
New(made, backends) == made @@ [instance |-> Cardinality(DOMAIN backends) + 1]

\* Mutant of _get_backend: no look into the cache, a backend is constructed
\* and stored at every call
_get_backend_fresh(calendar, accounts, backends) ==
    IF ~HasKey(accounts, calendar)
    THEN [raised |-> FALSE, value |-> None, backends |-> backends]
    ELSE LET made == _init_backend(Lookup(accounts, calendar))
         IN IF made.raised
            THEN [raised |-> TRUE, error |-> made.error, backends |-> backends]
            ELSE [raised |-> FALSE, value |-> Some(New(made.value, backends)),
                  backends |-> [n \in DOMAIN backends \cup {calendar} |->
                                   IF n = calendar THEN New(made.value, backends)
                                   ELSE backends[n]]]

\* _get_backend: the handle (None for an unknown name) and the cache after
\* the call; a raise of _init_backend leaves the cache as it was
_get_backend(calendar, accounts, backends) ==
    IF ~HasKey(accounts, calendar)
    THEN [raised |-> FALSE, value |-> None, backends |-> backends]
    ELSE IF calendar \notin DOMAIN backends
    THEN LET made == _init_backend(Lookup(accounts, calendar))
         IN IF made.raised
            THEN [raised |-> TRUE, error |-> made.error, backends |-> backends]
            ELSE [raised |-> FALSE, value |-> Some(New(made.value, backends)),
                  backends |-> [n \in DOMAIN backends \cup {calendar} |->
                                   IF n = calendar THEN New(made.value, backends)
                                   ELSE backends[n]]]
    ELSE [raised |-> FALSE, value |-> Some(backends[calendar]), backends |-> backends]

\* Mutant of Connect: a backend without credentials connects as well
ConnectAnonymous(backend, answer) == answer

\* The connection every backend method opens first (_get_account, ews.py
\* 24-37; _get_calendar, caldav_backend.py 24-37; _get_service, google.py
\* 26-68): the Exchange and CalDAV backends raise a ValueError unless both
\* credential variables are set, and else the provider answers
Connect(backend, answer) ==
    IF /\ backend.class \in {"EWSBackend", "CalDAVBackend"}
       /\ \/ environ_get(backend.config["username_env"]) = ""
          \/ environ_get(backend.config["password_env"]) = ""
    THEN Raised("credentials not set")
    ELSE answer

\* Mutant of _validate_calendar: an unknown name passes
_validate_calendar_lax(calendar, accounts) ==
    IF Len(accounts) = 0
    THEN Some([error |-> << "No calendars configured. Set CALENDAR_CONFIG env var." >>])
    ELSE None

\* _validate_calendar: the error dict, or None
_validate_calendar(calendar, accounts) ==
    IF Len(accounts) = 0
    THEN Some([error |-> << "No calendars configured. Set CALENDAR_CONFIG env var." >>])
    ELSE IF ~HasKey(accounts, calendar)
    THEN Some([error |-> << "Unknown calendar '", calendar, "'. Available: " >> \o Keys(accounts)])
    ELSE None

\* ------------------------------------------------------------------------
\* list.sort(key=lambda e: e.start): a stable sort
\* ------------------------------------------------------------------------
\* Mutant of InsertByStart: an event whose start is already present is lost
InsertByStartUnique(sorted, e) ==
    IF \E i \in DOMAIN sorted : sorted[i].start = e.start THEN sorted
    ELSE LET before == { i \in DOMAIN sorted : sorted[i].start < e.start }
         IN SubSeq(sorted, 1, Cardinality(before)) \o << e >> \o
            SubSeq(sorted, Cardinality(before) + 1, Len(sorted))

\* e inserted behind every element whose start is not later
InsertByStart(sorted, e) ==
    LET before == { i \in DOMAIN sorted : sorted[i].start <= e.start }
        n == IF before = {} THEN 0 ELSE CHOOSE i \in before : \A j \in before : j <= i
    IN SubSeq(sorted, 1, n) \o << e >> \o SubSeq(sorted, n + 1, Len(sorted))

\* Mutant of SortByStart: the merged list is left in fetch order
Unsorted(events) == events

RECURSIVE SortByStart(_)
SortByStart(events) ==
    IF events = << >> THEN << >>
    ELSE InsertByStart(SortByStart(SubSeq(events, 1, Len(events) - 1)), events[Len(events)])

\* ------------------------------------------------------------------------
\* Tools. The tool functions declare no requester parameter (server.py 101,
\* 117-121, 191-198, 234-242, 291, 316): a user_id in the arguments of a tool
\* call is not bound to anything, and the handler runs without it.
\* ------------------------------------------------------------------------
\* What a handler hands back: its return value, the cache and the call log
Done(res, backends, log) == [result |-> res, backends |-> backends, calls |-> log]

\* An exception that leaves the handler
Escaped(e) == [exception |-> e]

\* Mutant of list_calendars: an empty registry is listed as an empty list
list_calendars_empty(accounts) ==
    [calendars |-> [i \in DOMAIN accounts |->
                       [name |-> accounts[i].name, label |-> accounts[i].label,
                        type |-> accounts[i].type]]]

list_calendars(accounts) ==
    IF Len(accounts) = 0
    THEN [error |-> << "No calendars configured" >>]
    ELSE [calendars |-> [i \in DOMAIN accounts |->
                            [name |-> accounts[i].name, label |-> accounts[i].label,
                             type |-> accounts[i].type]]]

\* Mutant of FetchEvents: the first provider that raises ends the loop
RECURSIVE FetchEventsAbort(_, _, _, _, _, _, _)
FetchEventsAbort(calendars_to_query, i, dt_start, dt_end, answers, accounts, st) ==
    IF i > Len(calendars_to_query) THEN st
    ELSE LET cal_name == calendars_to_query[i]
             got == _get_backend(cal_name, accounts, st.backends)
             out == BackendListEvents(cal_name, Connect(got.value[1], answers[i]))
             log == Append(st.calls, Awaited(cal_name, "list_events", out,
                                             st.tick + 1, st.tick + 2))
         IN IF out.raised
            THEN [st EXCEPT !.errors = Append(@, << cal_name, ": ", out.error >>),
                            !.backends = got.backends, !.calls = log, !.tick = @ + 2]
            ELSE FetchEventsAbort(calendars_to_query, i + 1, dt_start, dt_end, answers, accounts,
                                  [st EXCEPT !.all_events = @ \o out.value,
                                             !.backends = got.backends, !.calls = log,
                                             !.tick = @ + 2])

\* Mutant of FetchEvents: a raise is swallowed, nothing is recorded for it
RECURSIVE FetchEventsSwallow(_, _, _, _, _, _, _)
FetchEventsSwallow(calendars_to_query, i, dt_start, dt_end, answers, accounts, st) ==
    IF i > Len(calendars_to_query) THEN st
    ELSE LET cal_name == calendars_to_query[i]
             got == _get_backend(cal_name, accounts, st.backends)
             out == BackendListEvents(cal_name, Connect(got.value[1], answers[i]))
             log == Append(st.calls, Awaited(cal_name, "list_events", out,
                                             st.tick + 1, st.tick + 2))
         IN FetchEventsSwallow(calendars_to_query, i + 1, dt_start, dt_end, answers, accounts,
                               [st EXCEPT !.all_events = IF out.raised THEN @ ELSE @ \o out.value,
                                          !.backends = got.backends, !.calls = log,
                                          !.tick = @ + 2])

\* Mutant of FetchEvents: the fetches are issued together and awaited
\* afterwards, as asyncio.gather would
RECURSIVE FetchEventsGather(_, _, _, _, _, _, _)
FetchEventsGather(calendars_to_query, i, dt_start, dt_end, answers, accounts, st) ==
    IF i > Len(calendars_to_query) THEN st
    ELSE LET cal_name == calendars_to_query[i]
             got == _get_backend(cal_name, accounts, st.backends)
             out == BackendListEvents(cal_name, Connect(got.value[1], answers[i]))
             log == Append(st.calls, Awaited(cal_name, "list_events", out,
                                             i, Len(calendars_to_query) + i))
         IN FetchEventsGather(calendars_to_query, i + 1, dt_start, dt_end, answers, accounts,
                              [st EXCEPT !.all_events = IF out.raised THEN @ ELSE @ \o out.value,
                                         !.errors = IF out.raised
                                                    THEN Append(@, << cal_name, ": ", out.error >>)
                                                    ELSE @,
                                         !.backends = got.backends, !.calls = log,
                                         !.tick = @ + 2])

\* The loop of list_events over calendars_to_query (server.py 163-173), from
\* its i-th round on; st carries all_events, errors, the cache, the log and
\* the step the request is at; the log keeps the range each fetch was called
\* with. The handler awaits each fetch inside the loop:
\* it issues the call at one step and is resumed with the outcome at the
\* next, before it goes on to the next calendar.
RECURSIVE FetchEvents(_, _, _, _, _, _, _)
FetchEvents(calendars_to_query, i, dt_start, dt_end, answers, accounts, st) ==
    IF i > Len(calendars_to_query) THEN st
    ELSE LET cal_name == calendars_to_query[i]
             got == _get_backend(cal_name, accounts, st.backends)
         IN IF got.raised
            THEN [st EXCEPT !.exception = Some(got.error)]
            ELSE IF got.value = None
            THEN FetchEvents(calendars_to_query, i + 1, dt_start, dt_end, answers, accounts,
                             [st EXCEPT !.errors = Append(@, << "Backend not available: ", cal_name >>),
                                        !.backends = got.backends])
            ELSE LET out == BackendListEvents(cal_name, Connect(got.value[1], answers[i]))
                     log == Append(st.calls, Awaited(cal_name, "list_events", out,
                                                     st.tick + 1, st.tick + 2)
                                             @@ [start |-> dt_start, end |-> dt_end])
                 IN IF out.raised
                    THEN FetchEvents(calendars_to_query, i + 1, dt_start, dt_end, answers, accounts,
                                     [st EXCEPT !.errors = Append(@, << cal_name, ": ", out.error >>),
                                                !.backends = got.backends, !.calls = log,
                                                !.tick = @ + 2])
                    ELSE FetchEvents(calendars_to_query, i + 1, dt_start, dt_end, answers, accounts,
                                     [st EXCEPT !.all_events = @ \o out.value,
                                                !.backends = got.backends, !.calls = log,
                                                !.tick = @ + 2])

\* list_events behind its date parsing: dt_start and dt_end are known
ListEventsRange(calendar, dt_start, dt_end, answers, accounts, backends) ==
    LET err == IF calendar /= "" THEN _validate_calendar(calendar, accounts) ELSE None
        calendars_to_query == IF calendar /= "" THEN << calendar >> ELSE Keys(accounts)
        st == FetchEvents(calendars_to_query, 1, dt_start, dt_end, answers, accounts,
                          [all_events |-> << >>, errors |-> << >>, backends |-> backends,
                           calls |-> << >>, exception |-> None, tick |-> 0])
        all_events == SortByStart(st.all_events)
        res == [calendars_queried |-> calendars_to_query,
                start |-> isoformat(dt_start),
                end |-> isoformat(dt_end),
                count |-> Len(all_events),
                events |-> [k \in DOMAIN all_events |-> _event_to_dict(all_events[k])]]
    IN IF err /= None THEN Done(err[1], backends, << >>)
       ELSE IF st.exception /= None THEN Done(Escaped(st.exception[1]), st.backends, st.calls)
       ELSE IF st.errors /= << >>
       THEN Done(res @@ [errors |-> st.errors], st.backends, st.calls)
       ELSE Done(res, st.backends, st.calls)

\* Mutant of list_events: an omitted end is the end of today
list_events_until_tonight(calendar, start, end, now, answers, accounts, backends) ==
    LET ps == _parse_datetime(start)
        pe == _parse_datetime(end)
        dt_start == IF start /= "" THEN ps.value ELSE StartOfDay(now)
        dt_end == IF end /= "" THEN pe.value ELSE EndOfDay(now)
    IN IF start /= "" /\ ps.raised
       THEN Done([error |-> << "Invalid start date: ", start >>], backends, << >>)
       ELSE IF end /= "" /\ pe.raised
       THEN Done([error |-> << "Invalid end date: ", end >>], backends, << >>)
       ELSE ListEventsRange(calendar, dt_start, dt_end, answers, accounts, backends)

\* list_events (server.py 116-187): the date range first (132-148), then the
\* calendars and the fetch
list_events(calendar, start, end, now, answers, accounts, backends) ==
    LET ps == _parse_datetime(start)
        pe == _parse_datetime(end)
        dt_start == IF start /= "" THEN ps.value ELSE StartOfDay(now)
        dt_end == IF end /= "" THEN pe.value ELSE EndOfDay(dt_start)
    IN IF start /= "" /\ ps.raised
       THEN Done([error |-> << "Invalid start date: ", start >>], backends, << >>)
       ELSE IF end /= "" /\ pe.raised
       THEN Done([error |-> << "Invalid end date: ", end >>], backends, << >>)
       ELSE ListEventsRange(calendar, dt_start, dt_end, answers, accounts, backends)

\* What a provider may answer to a call that yields one event or a flag: it
\* raises, or it succeeds ("ok": the backend then builds its return value)
CallAnswers == { Raised(e) : e \in BackendErrors } \cup { Returned("ok") }

\* backend.create_event: the event as the provider stored it, under a new id
\* (ews.py 100-108, google.py 134-142, caldav_backend.py 146-154)
BackendCreateEvent(cal, title, start, end, description, location, answer) ==
    IF answer.raised THEN answer
    ELSE Returned(CalendarEvent("new-1", cal, title, start, end, description, location, FALSE))

\* The event the provider holds under event_id before an update
StoredEvent(cal, event_id) ==
    CalendarEvent(event_id, cal, "Meeting", DateTime(0, 14, 0, 0), DateTime(0, 15, 0, 0),
                  "", "", FALSE)

\* backend.update_event(event_id, **kwargs): the fields given replace the
\* stored ones (ews.py 117-141, google.py 148-173, caldav_backend.py 164-178)
BackendUpdateEvent(cal, event_id, kwargs, answer) ==
    IF answer.raised THEN answer
    ELSE Returned([f \in DOMAIN StoredEvent(cal, event_id) |->
                      IF f \in DOMAIN kwargs THEN kwargs[f]
                      ELSE StoredEvent(cal, event_id)[f]])

\* backend.get_event(event_id)
BackendGetEvent(cal, event_id, answer) ==
    IF answer.raised THEN answer ELSE Returned(StoredEvent(cal, event_id))

\* What a provider may answer to delete_event: it raises, or it reports
\* whether an event was deleted
DeleteAnswers == { Raised(e) : e \in BackendErrors } \cup { Returned(TRUE), Returned(FALSE) }

\* Mutant of create_event: a call that raised is made a second time
create_event_retrying(calendar, title, start, end, description, location, answer, accounts, backends) ==
    LET err == _validate_calendar(calendar, accounts)
        ps == _parse_datetime(start)
        pe == _parse_datetime(end)
        got == _get_backend(calendar, accounts, backends)
        out == BackendCreateEvent(calendar, title, ps.value, pe.value, description, location,
                                  Connect(got.value[1], answer))
    IN IF err /= None THEN Done(err[1], backends, << >>)
       ELSE IF ps.raised THEN Done([error |-> << "Invalid start date: ", start >>], backends, << >>)
       ELSE IF pe.raised THEN Done([error |-> << "Invalid end date: ", end >>], backends, << >>)
       ELSE IF got.raised THEN Done(Escaped(got.error), got.backends, << >>)
       ELSE IF got.value = None
       THEN Done([error |-> << "Backend not available: ", calendar >>], got.backends, << >>)
       ELSE IF out.raised
       THEN Done([error |-> << "Failed to create event: ", out.error >>], got.backends,
                 << Call(calendar, "create_event", out), Call(calendar, "create_event", out) >>)
       ELSE Done([success |-> TRUE, event |-> _event_to_dict(out.value)], got.backends,
                 << Call(calendar, "create_event", out) >>)

\* Mutant of create_event: the backend is looked up before the dates are parsed
create_event_backend_first(calendar, title, start, end, description, location, answer, accounts, backends) ==
    LET err == _validate_calendar(calendar, accounts)
        ps == _parse_datetime(start)
        pe == _parse_datetime(end)
        got == _get_backend(calendar, accounts, backends)
        out == BackendCreateEvent(calendar, title, ps.value, pe.value, description, location,
                                  Connect(got.value[1], answer))
        args == [args |-> << title, ps.value, pe.value, description, location >>]
    IN IF err /= None THEN Done(err[1], backends, << >>)
       ELSE IF got.raised THEN Done(Escaped(got.error), got.backends, << >>)
       ELSE IF got.value = None
       THEN Done([error |-> << "Backend not available: ", calendar >>], got.backends, << >>)
       ELSE IF ps.raised
       THEN Done([error |-> << "Invalid start date: ", start >>], got.backends, << >>)
       ELSE IF pe.raised
       THEN Done([error |-> << "Invalid end date: ", end >>], got.backends, << >>)
       ELSE IF out.raised
       THEN Done([error |-> << "Failed to create event: ", out.error >>], got.backends,
                 << Call(calendar, "create_event", out) @@ args >>)
       ELSE Done([success |-> TRUE, event |-> _event_to_dict(out.value)], got.backends,
                 << Call(calendar, "create_event", out) @@ args >>)

\* create_event (server.py 190-230): the calendar is checked, then the two
\* dates, then the backend is looked up and called once; the log keeps the
\* arguments of the call
create_event(calendar, title, start, end, description, location, answer, accounts, backends) ==
    LET err == _validate_calendar(calendar, accounts)
        ps == _parse_datetime(start)
        pe == _parse_datetime(end)
        got == _get_backend(calendar, accounts, backends)
        out == BackendCreateEvent(calendar, title, ps.value, pe.value, description, location,
                                  Connect(got.value[1], answer))
        args == [args |-> << title, ps.value, pe.value, description, location >>]
    IN IF err /= None THEN Done(err[1], backends, << >>)
       ELSE IF ps.raised THEN Done([error |-> << "Invalid start date: ", start >>], backends, << >>)
       ELSE IF pe.raised THEN Done([error |-> << "Invalid end date: ", end >>], backends, << >>)
       ELSE IF got.raised THEN Done(Escaped(got.error), got.backends, << >>)
       ELSE IF got.value = None
       THEN Done([error |-> << "Backend not available: ", calendar >>], got.backends, << >>)
       ELSE IF out.raised
       THEN Done([error |-> << "Failed to create event: ", out.error >>], got.backends,
                 << Call(calendar, "create_event", out) @@ args >>)
       ELSE Done([success |-> TRUE, event |-> _event_to_dict(out.value)], got.backends,
                 << Call(calendar, "create_event", out) @@ args >>)

\* Mutant of UpdateKwargs: the title is passed on even when it is empty
UpdateKwargsTitled(title, start, end, description, location) ==
    LET given == {"title"} \cup
                 (IF start /= "" THEN {"start"} ELSE {}) \cup
                 (IF end /= "" THEN {"end"} ELSE {}) \cup
                 (IF description /= "" THEN {"description"} ELSE {}) \cup
                 (IF location /= "" THEN {"location"} ELSE {})
    IN [f \in given |->
           CASE f = "title" -> title
             [] f = "start" -> _parse_datetime(start).value
             [] f = "end" -> _parse_datetime(end).value
             [] f = "description" -> description
             [] f = "location" -> location]

\* The keyword arguments update_event collects: the non-empty fields, start
\* and end parsed (server.py 258-274; called once both are known to parse)
UpdateKwargs(title, start, end, description, location) ==
    LET given == (IF title /= "" THEN {"title"} ELSE {}) \cup
                 (IF start /= "" THEN {"start"} ELSE {}) \cup
                 (IF end /= "" THEN {"end"} ELSE {}) \cup
                 (IF description /= "" THEN {"description"} ELSE {}) \cup
                 (IF location /= "" THEN {"location"} ELSE {})
    IN [f \in given |->
           CASE f = "title" -> title
             [] f = "start" -> _parse_datetime(start).value
             [] f = "end" -> _parse_datetime(end).value
             [] f = "description" -> description
             [] f = "location" -> location]

update_event(calendar, event_id, title, start, end, description, location, answer, accounts, backends) ==
    LET err == _validate_calendar(calendar, accounts)
        kwargs == UpdateKwargs(title, start, end, description, location)
        got == _get_backend(calendar, accounts, backends)
        out == BackendUpdateEvent(calendar, event_id, kwargs, Connect(got.value[1], answer))
    IN IF err /= None THEN Done(err[1], backends, << >>)
       ELSE IF start /= "" /\ _parse_datetime(start).raised
       THEN Done([error |-> << "Invalid start date: ", start >>], backends, << >>)
       ELSE IF end /= "" /\ _parse_datetime(end).raised
       THEN Done([error |-> << "Invalid end date: ", end >>], backends, << >>)
       ELSE IF DOMAIN kwargs = {} THEN Done([error |-> << "No fields to update" >>], backends, << >>)
       ELSE IF got.raised THEN Done(Escaped(got.error), got.backends, << >>)
       ELSE IF got.value = None
       THEN Done([error |-> << "Backend not available: ", calendar >>], got.backends, << >>)
       ELSE IF out.raised
       THEN Done([error |-> << "Failed to update event: ", out.error >>], got.backends,
                 << Call(calendar, "update_event", out) >>)
       ELSE Done([success |-> TRUE, event |-> _event_to_dict(out.value)], got.backends,
                 << Call(calendar, "update_event", out) >>)

\* Mutant of delete_event: whatever the backend reports is a success
delete_event_always(calendar, event_id, answer, accounts, backends) ==
    LET err == _validate_calendar(calendar, accounts)
        got == _get_backend(calendar, accounts, backends)
        out == Connect(got.value[1], answer)
    IN IF err /= None THEN Done(err[1], backends, << >>)
       ELSE IF got.raised THEN Done(Escaped(got.error), got.backends, << >>)
       ELSE IF got.value = None
       THEN Done([error |-> << "Backend not available: ", calendar >>], got.backends, << >>)
       ELSE IF out.raised
       THEN Done([error |-> << "Failed to delete event: ", out.error >>], got.backends,
                 << Call(calendar, "delete_event", out) >>)
       ELSE Done([success |-> TRUE, message |-> << "Event deleted from ", calendar >>],
                 got.backends, << Call(calendar, "delete_event", out) >>)

delete_event(calendar, event_id, answer, accounts, backends) ==
    LET err == _validate_calendar(calendar, accounts)
        got == _get_backend(calendar, accounts, backends)
        out == Connect(got.value[1], answer)
    IN IF err /= None THEN Done(err[1], backends, << >>)
       ELSE IF got.raised THEN Done(Escaped(got.error), got.backends, << >>)
       ELSE IF got.value = None
       THEN Done([error |-> << "Backend not available: ", calendar >>], got.backends, << >>)
       ELSE IF out.raised
       THEN Done([error |-> << "Failed to delete event: ", out.error >>], got.backends,
                 << Call(calendar, "delete_event", out) >>)
       ELSE IF out.value
       THEN Done([success |-> TRUE, message |-> << "Event deleted from ", calendar >>],
                 got.backends, << Call(calendar, "delete_event", out) >>)
       ELSE Done([error |-> << "Event not found: ", event_id >>], got.backends,
                 << Call(calendar, "delete_event", out) >>)

\* Mutant of get_event: the awaited call is not wrapped in a try
get_event_unguarded(calendar, event_id, answer, accounts, backends) ==
    LET err == _validate_calendar(calendar, accounts)
        got == _get_backend(calendar, accounts, backends)
        out == BackendGetEvent(calendar, event_id, Connect(got.value[1], answer))
    IN IF err /= None THEN Done(err[1], backends, << >>)
       ELSE IF got.raised THEN Done(Escaped(got.error), got.backends, << >>)
       ELSE IF got.value = None
       THEN Done([error |-> << "Backend not available: ", calendar >>], got.backends, << >>)
       ELSE IF out.raised
       THEN Done(Escaped(out.error), got.backends, << Call(calendar, "get_event", out) >>)
       ELSE Done([event |-> _event_to_dict(out.value)], got.backends,
                 << Call(calendar, "get_event", out) >>)

get_event(calendar, event_id, answer, accounts, backends) ==
    LET err == _validate_calendar(calendar, accounts)
        got == _get_backend(calendar, accounts, backends)
        out == BackendGetEvent(calendar, event_id, Connect(got.value[1], answer))
    IN IF err /= None THEN Done(err[1], backends, << >>)
       ELSE IF got.raised THEN Done(Escaped(got.error), got.backends, << >>)
       ELSE IF got.value = None
       THEN Done([error |-> << "Backend not available: ", calendar >>], got.backends, << >>)
       ELSE IF out.raised
       THEN Done([error |-> << "Failed to get event: ", out.error >>], got.backends,
                 << Call(calendar, "get_event", out) >>)
       ELSE Done([event |-> _event_to_dict(out.value)], got.backends,
                 << Call(calendar, "get_event", out) >>)

\* ------------------------------------------------------------------------
\* Visibility filter and notification generator. server.py as published
\* holds neither; both follow the specification (4.3, 4.5, 6) and the tests
\* (test_server.py 438-581, 676-830).
\* ------------------------------------------------------------------------
\* Mutant of IsVisible: no filtering
AlwaysVisible(account, requester_id) == TRUE

\* An account is visible to every caller without an id, and else when it is
\* shared or owned by the requester
IsVisible(account, requester_id) ==
    \/ requester_id = None
    \/ account.visibility = "shared"
    \/ account.visibility = "owner" /\ account.owner_id = requester_id

\* The names of the visible accounts, in registry order
RECURSIVE visible_accounts(_, _)
visible_accounts(accounts, requester_id) ==
    IF accounts = << >> THEN << >>
    ELSE (IF IsVisible(Head(accounts), requester_id) THEN << Head(accounts).name >> ELSE << >>)
         \o visible_accounts(Tail(accounts), requester_id)

\* Mutant of RoundMinutes: the minutes are truncated
TruncateMinutes(delta) == delta \div 60

\* round(delta / 1 minute), delta in seconds: Python rounds a tie to the even
\* neighbour
RoundMinutes(delta) ==
    LET q == delta \div 60
        r == delta % 60
    IN IF r < 30 THEN q
       ELSE IF r > 30 THEN q + 1
       ELSE IF q % 2 = 0 THEN q ELSE q + 1

\* Mutant of dedup_key: the threshold is left out of the key
dedup_key_of_event(account_name, event_id, threshold) ==
    "calendar:" \o account_name \o ":" \o event_id

\* f"calendar:{account}:{event_id}:{threshold}min"
dedup_key(account_name, event_id, threshold) ==
    "calendar:" \o account_name \o ":" \o event_id \o ":" \o ToString(threshold) \o "min"

\* The reminder of one event at one threshold
Notification(account, event, threshold, urgency) ==
    [event_type |-> "calendar.reminder_upcoming",
     title |-> event.title,
     message |-> << event.title, " beginnt in ", ToString(threshold) \o " Minuten",
                    " (", account.label, ")" >>,
     urgency |-> urgency,
     dedup_key |-> dedup_key(account.name, event.id, threshold),
     data |-> [calendar |-> account.name, event_id |-> event.id],
     tts |-> TRUE]

\* The reminders of one event: a point match of the rounded minutes until
\* its start against the two thresholds
Reminders(account, event, now) ==
    LET minutes_until_start == RoundMinutes(event.start - now)
    IN IF minutes_until_start = 30 THEN << Notification(account, event, 30, "info") >>
       ELSE IF minutes_until_start = 5 THEN << Notification(account, event, 5, "warning") >>
       ELSE << >>

RECURSIVE RemindersOf(_, _, _)
RemindersOf(account, events, now) ==
    IF events = << >> THEN << >>
    ELSE Reminders(account, Head(events), now) \o RemindersOf(account, Tail(events), now)

\* The offsets from now, in seconds, at which the events of a scan start
ScanOffsets == { 270, 300, 1770, 2400 }

ScanAnswers == AnswerSeqs(ScanOffsets)

\* backend.list_events(now, now + lookahead) of account cal
BackendScanEvents(cal, now, answer) ==
    IF answer.raised THEN answer
    ELSE Returned([k \in DOMAIN answer.value |->
                      CalendarEvent(EventId(k), cal, "Meeting", now + answer.value[k],
                                    now + answer.value[k] + Hours(1), "", "", FALSE)])

\* Mutant of ScanAccounts: the first account that raises ends the scan
RECURSIVE ScanAccountsAbort(_, _, _, _, _, _)
ScanAccountsAbort(names, i, now, answers, accounts, st) ==
    IF i > Len(names) THEN st
    ELSE LET got == _get_backend(names[i], accounts, st.backends)
             out == BackendScanEvents(names[i], now, Connect(got.value[1], answers[i]))
             log == Append(st.calls, Call(names[i], "list_events", out))
         IN IF out.raised
            THEN [st EXCEPT !.backends = got.backends, !.calls = log]
            ELSE ScanAccountsAbort(names, i + 1, now, answers, accounts,
                                   [st EXCEPT !.notifications =
                                                  @ \o RemindersOf(Lookup(accounts, names[i]),
                                                                    out.value, now),
                                              !.backends = got.backends, !.calls = log])

\* The scan over the visible accounts, from its i-th round on; a failing
\* account is skipped
RECURSIVE ScanAccounts(_, _, _, _, _, _)
ScanAccounts(names, i, now, answers, accounts, st) ==
    IF i > Len(names) THEN st
    ELSE LET got == _get_backend(names[i], accounts, st.backends)
         IN IF got.raised \/ got.value = None
            THEN ScanAccounts(names, i + 1, now, answers, accounts,
                              [st EXCEPT !.backends = got.backends])
            ELSE LET out == BackendScanEvents(names[i], now, Connect(got.value[1], answers[i]))
                     log == Append(st.calls, Call(names[i], "list_events", out))
                 IN IF out.raised
                    THEN ScanAccounts(names, i + 1, now, answers, accounts,
                                      [st EXCEPT !.backends = got.backends, !.calls = log])
                    ELSE ScanAccounts(names, i + 1, now, answers, accounts,
                                      [st EXCEPT !.notifications =
                                                     @ \o RemindersOf(Lookup(accounts, names[i]),
                                                                       out.value, now),
                                                 !.backends = got.backends, !.calls = log])

get_pending_notifications(lookahead_minutes, user_id, now, answers, accounts, backends) ==
    LET st == ScanAccounts(visible_accounts(accounts, user_id), 1, now, answers, accounts,
                           [notifications |-> << >>, backends |-> backends, calls |-> << >>])
    IN Done(st.notifications, st.backends, st.calls)

\* The lookahead windows a caller asks for, in minutes
LookaheadInputs == { 45 }

\* The texts a caller passes for title, description and location, and the
\* event ids it names
TitleInputs == {"", "Standup"}

TextInputs == {"", "Raum 1"}

EventIdInputs == {"e1", "e2"}

\* ------------------------------------------------------------------------
\* The server
\* ------------------------------------------------------------------------
\* The module is imported: both dicts are empty, main() has not run
Init ==
    /\ _accounts = << >>
    /\ _backends = EmptyDict
    /\ request = [op |-> "start"]
    /\ result = [none |-> TRUE]
    /\ calls = << >>
    /\ clock \in Nows

\* main() (server.py 411): _accounts = load_config(). A ValueError of
\* load_config leaves main before the assignment and ends the process.
Startup(loaded) ==
    IF loaded.raised
    THEN /\ result' = Escaped(loaded.error)
         /\ UNCHANGED _accounts
    ELSE /\ result' = [loaded |-> loaded.keys, warnings |-> loaded.warnings]
         /\ _accounts' = loaded.value

Main ==
    /\ request.op = "start"
    /\ \E calendars \in ConfigFiles :
         /\ request' = [op |-> "main", calendars |-> calendars]
         /\ Startup(load_config(calendars))
    /\ UNCHANGED << _backends, calls, clock >>

\* Mutant of Serve: delete_event empties the registry
ServeForgetting(req, done) ==
    /\ request' = req
    /\ result' = done.result
    /\ _backends' = done.backends
    /\ calls' = done.calls
    /\ _accounts' = IF req.op = "delete_event" THEN << >> ELSE _accounts

\* A handler's outcome becomes the state
Serve(req, done) ==
    /\ request' = req
    /\ result' = done.result
    /\ _backends' = done.backends
    /\ calls' = done.calls
    /\ UNCHANGED _accounts

\* The number of providers a list_events request gets to ask: none when it
\* is rejected before the loop
Asked(calendar, start, end, accounts) ==
    IF \/ start /= "" /\ _parse_datetime(start).raised
       \/ end /= "" /\ _parse_datetime(end).raised
       \/ calendar /= "" /\ _validate_calendar(calendar, accounts) /= None
    THEN 0
    ELSE IF calendar /= "" THEN 1 ELSE Len(accounts)

\* No request is being served: the server waits for the next one
Idle == request.op = "none"

ListCalendars ==
    /\ Idle
    /\ \E user_id \in UserIds :
        Serve([op |-> "list_calendars", user_id |-> user_id],
              Done(list_calendars(_accounts), _backends, << >>))
    /\ UNCHANGED clock

ListEvents ==
    /\ Idle
    /\ \E calendar \in CalendarInputs, start \in DateInputs, end \in DateInputs,
       user_id \in UserIds, now \in Nows :
      \E answers \in ListAnswers[Asked(calendar, start, end, _accounts)] :
                /\ clock' = now
                /\ Serve([op |-> "list_events", calendar |-> calendar, start |-> start,
                          end |-> end, user_id |-> user_id],
                         list_events(calendar, start, end, now, answers, _accounts, _backends))

CreateEvent ==
    /\ Idle
    /\ \E calendar \in CalendarInputs \ {""}, title \in TitleInputs \ {""},
          start \in DateInputs, end \in DateInputs, description \in TextInputs,
          location \in TextInputs, user_id \in UserIds, answer \in CallAnswers :
           Serve([op |-> "create_event", calendar |-> calendar, title |-> title,
                  start |-> start, end |-> end, description |-> description,
                  location |-> location, user_id |-> user_id],
                 create_event(calendar, title, start, end, description, location,
                              answer, _accounts, _backends))
    /\ UNCHANGED clock

UpdateEvent ==
    /\ Idle
    /\ \E calendar \in CalendarInputs \ {""}, event_id \in EventIdInputs,
          title \in TitleInputs, start \in DateInputs, end \in DateInputs,
          description \in TextInputs, location \in TextInputs, user_id \in UserIds,
          answer \in CallAnswers :
           Serve([op |-> "update_event", calendar |-> calendar, event_id |-> event_id,
                  title |-> title, start |-> start, end |-> end,
                  description |-> description, location |-> location,
                  user_id |-> user_id],
                 update_event(calendar, event_id, title, start, end, description, location,
                              answer, _accounts, _backends))
    /\ UNCHANGED clock

DeleteEvent ==
    /\ Idle
    /\ \E calendar \in CalendarInputs \ {""}, event_id \in EventIdInputs,
          user_id \in UserIds, answer \in DeleteAnswers :
           Serve([op |-> "delete_event", calendar |-> calendar, event_id |-> event_id,
                  user_id |-> user_id],
                 delete_event(calendar, event_id, answer, _accounts, _backends))
    /\ UNCHANGED clock

GetEvent ==
    /\ Idle
    /\ \E calendar \in CalendarInputs \ {""}, event_id \in EventIdInputs,
          user_id \in UserIds, answer \in CallAnswers :
           Serve([op |-> "get_event", calendar |-> calendar, event_id |-> event_id,
                  user_id |-> user_id],
                 get_event(calendar, event_id, answer, _accounts, _backends))
    /\ UNCHANGED clock

GetPendingNotifications ==
    /\ Idle
    /\ \E lookahead_minutes \in LookaheadInputs, user_id \in UserIds, now \in Nows :
         \E answers \in ScanAnswers[Len(visible_accounts(_accounts, user_id))] :
           /\ clock' = now
           /\ Serve([op |-> "get_pending_notifications",
                     lookahead_minutes |-> lookahead_minutes, user_id |-> user_id],
                    get_pending_notifications(lookahead_minutes, user_id, now, answers,
                                              _accounts, _backends))

\* main() reaches mcp.run and the server waits for its first request; later,
\* the reply of a tool leaves through the transport, the handler's locals are
\* gone and the server waits for the next request (mcp.run serves one call at
\* a time). A process whose load_config raised is gone.
Reply ==
    /\ request.op \notin {"start", "none"}
    /\ ~(request.op = "main" /\ "exception" \in DOMAIN result)
    /\ request' = [op |-> "none"]
    /\ result' = [none |-> TRUE]
    /\ calls' = << >>
    /\ UNCHANGED << _accounts, _backends, clock >>

Next ==
    \/ Main
    \/ ListCalendars
    \/ ListEvents
    \/ CreateEvent
    \/ UpdateEvent
    \/ DeleteEvent
    \/ GetEvent
    \/ GetPendingNotifications
    \/ Reply

Spec == Init /\ [][Next]_vars

\* ------------------------------------------------------------------------
\* The notification keys on their own: the generator applied to pairs of
\* events, and to the same answers twice, in a server that has started
\* ------------------------------------------------------------------------
\* The account names and event ids keys are built from. Names are free text
\* of the configuration file and ids are the provider's: both may hold the
\* ":" the key is joined with.
KeyAccountInputs == {"work", "family", "work:e1"}

KeyEventIdInputs == {"e1", "e2", "e1:e1"}

\* The thresholds of the generator, in minutes
Thresholds == {30, 5}

KeyInit ==
    /\ _accounts \in Registries
    /\ _backends = EmptyDict
    /\ request = [op |-> "none"]
    /\ result = [none |-> TRUE]
    /\ calls = << >>
    /\ clock \in Nows

\* The keys of two reminders
DedupKeys ==
    /\ Idle
    /\ \E a1 \in KeyAccountInputs, a2 \in KeyAccountInputs,
          e1 \in KeyEventIdInputs, e2 \in KeyEventIdInputs,
          t1 \in Thresholds, t2 \in Thresholds :
         /\ request' = [op |-> "dedup_key",
                        first |-> [account |-> a1, event_id |-> e1, threshold |-> t1],
                        second |-> [account |-> a2, event_id |-> e2, threshold |-> t2]]
         /\ result' = << dedup_key(a1, e1, t1), dedup_key(a2, e2, t2) >>
    /\ UNCHANGED << _accounts, _backends, calls, clock >>

\* Two scans in a row that the providers answer alike
Rescan ==
    /\ Idle
    /\ \E lookahead_minutes \in LookaheadInputs, user_id \in UserIds, now \in Nows :
         \E answers \in ScanAnswers[Len(visible_accounts(_accounts, user_id))] :
           LET first == get_pending_notifications(lookahead_minutes, user_id, now, answers,
                                                  _accounts, _backends)
               second == get_pending_notifications(lookahead_minutes, user_id, now, answers,
                                                   _accounts, first.backends)
           IN /\ request' = [op |-> "rescan", user_id |-> user_id]
              /\ result' = << first.result, second.result >>
              /\ calls' = first.calls \o second.calls
              /\ _backends' = second.backends
              /\ clock' = now
    /\ UNCHANGED _accounts

KeyNext ==
    \/ DedupKeys
    \/ Rescan
    \/ Reply

KeySpec == KeyInit /\ [][KeyNext]_vars

\* ------------------------------------------------------------------------
\* The tools as coroutines: several invocations in flight on one event loop,
\* each running from one suspension point (the await of a backend method) to
\* the next. Here request holds the coroutines and calls the constructor
\* calls made so far.
\* ------------------------------------------------------------------------
\* The number of invocations in flight at a time
MaxTasks == 2

\* The tools that reach a backend
AsyncTools == {"list_events", "create_event", "update_event", "delete_event", "get_event"}

\* No coroutine in the slot
IdleTask == [pc |-> "idle"]

\* A coroutine that has passed its checks and is about to query todo
Task(op, calendar, todo) ==
    [pc |-> "running", op |-> op, calendar |-> calendar, todo |-> todo,
     current |-> "", handle |-> None]

\* Mutant of Advance: the lookup in the cache and the insertion are apart, a
\* suspension point between them (the constructor awaited)
AdvanceSuspending(task, accounts, backends) ==
    IF task.todo = << >> THEN [task |-> IdleTask, backends |-> backends, built |-> << >>]
    ELSE LET cal == Head(task.todo)
             made == New(_init_backend(Lookup(accounts, cal)).value, backends)
         IN IF task.pc = "constructing"
            THEN [task |-> [task EXCEPT !.pc = "awaiting", !.current = cal, !.todo = Tail(@),
                                        !.handle = Some(made)],
                  backends |-> [n \in DOMAIN backends \cup {cal} |->
                                   IF n = cal THEN made ELSE backends[n]],
                  built |-> << Call(cal, "__init__", Returned(made)) >>]
            ELSE IF cal \notin DOMAIN backends
            THEN [task |-> [task EXCEPT !.pc = "constructing"], backends |-> backends,
                  built |-> << >>]
            ELSE [task |-> [task EXCEPT !.pc = "awaiting", !.current = cal, !.todo = Tail(@),
                                        !.handle = Some(backends[cal])],
                  backends |-> backends, built |-> << >>]

\* A coroutine runs from where it is suspended to its next suspension point:
\* it returns when nothing is left to query, and else gets the backend of the
\* next calendar and awaits its method (server.py 164-169, 222-227, 279-284,
\* 302-307, 327-332). _get_backend is an ordinary function: its lookup and
\* its insertion (59-60) run in this one stretch, no other coroutine between
\* them. built is the constructor call it made, if any.
Advance(task, accounts, backends) ==
    IF task.todo = << >> THEN [task |-> IdleTask, backends |-> backends, built |-> << >>]
    ELSE LET cal == Head(task.todo)
             got == _get_backend(cal, accounts, backends)
         IN [task |-> [task EXCEPT !.pc = "awaiting", !.current = cal, !.todo = Tail(@),
                                   !.handle = got.value],
             backends |-> got.backends,
             built |-> IF cal \in DOMAIN got.backends \ DOMAIN backends
                       THEN << Call(cal, "__init__", Returned(got.backends[cal])) >>
                       ELSE << >>]

AsyncInit ==
    /\ _accounts \in Registries
    /\ _backends = EmptyDict
    /\ request = [op |-> "async", tasks |-> [i \in 1..MaxTasks |-> IdleTask]]
    /\ result = [none |-> TRUE]
    /\ calls = << >>
    /\ clock \in Nows

\* The state after coroutine i ran one stretch
Ran(i, step) ==
    /\ request' = [request EXCEPT !.tasks[i] = step.task]
    /\ _backends' = step.backends
    /\ calls' = calls \o step.built
    /\ UNCHANGED << _accounts, result, clock >>

\* A tool call arrives while others are suspended: its coroutine starts and
\* runs to its first await. A call the checks reject returns at once and
\* leaves no trace.
Invoke ==
    \E i \in 1..MaxTasks, op \in AsyncTools, calendar \in CalendarInputs :
        /\ request.tasks[i].pc = "idle"
        /\ IF calendar = "" THEN op = "list_events"
           ELSE _validate_calendar(calendar, _accounts) = None
        /\ Ran(i, Advance(Task(op, calendar,
                                IF calendar = "" THEN Keys(_accounts) ELSE << calendar >>),
                           _accounts, _backends))

\* The awaited call of a suspended coroutine has finished: the event loop
\* resumes it
Resume ==
    \E i \in 1..MaxTasks :
        /\ request.tasks[i].pc /= "idle"
        /\ Ran(i, Advance(request.tasks[i], _accounts, _backends))

AsyncNext ==
    \/ Invoke
    \/ Resume

AsyncSpec == AsyncInit /\ [][AsyncNext]_vars

\* ------------------------------------------------------------------------
\* Properties
\* ------------------------------------------------------------------------
\* list_events got past its checks and returned a listing
Listing == request.op = "list_events" /\ "events" \in DOMAIN result

\* The errors of a listing (the key is absent when there are none)
ErrorsOf(res) == IF "errors" \in DOMAIN res THEN res.errors ELSE << >>

\* The positions of the log at which the provider raised / returned
FailedCalls == { i \in DOMAIN calls : calls[i].outcome.raised }

SucceededCalls == { i \in DOMAIN calls : ~calls[i].outcome.raised }

\* The number of positions of seq that hold x
Count(x, seq) == Cardinality({ i \in DOMAIN seq : seq[i] = x })

\* The events the providers returned during the request, serialized, in
\* fetch order
RECURSIVE ReturnedEvents(_)
ReturnedEvents(log) ==
    IF log = << >> THEN << >>
    ELSE (IF Head(log).outcome.raised THEN << >>
          ELSE [k \in DOMAIN Head(log).outcome.value |->
                   _event_to_dict(Head(log).outcome.value[k])])
         \o ReturnedEvents(Tail(log))

\* C1: in list_events over several accounts a provider that raises does not
\* abort the request: the request still returns a listing, every queried
\* account was fetched, in order (those behind a failing one too), every
\* account that returned contributes all its events, and every raise is in
\* errors as "{name}: {error}".
C1_PartialFailure ==
    request.op = "list_events" /\ calls /= << >> =>
        /\ Listing
        /\ [i \in DOMAIN calls |-> calls[i].calendar] = result.calendars_queried
        /\ \A i \in FailedCalls :
              \E k \in DOMAIN ErrorsOf(result) :
                  ErrorsOf(result)[k] = << calls[i].calendar, ": ", calls[i].outcome.error >>
        /\ \A i \in SucceededCalls :
              \A k \in DOMAIN calls[i].outcome.value :
                  \E m \in DOMAIN result.events :
                      result.events[m] = _event_to_dict(calls[i].outcome.value[k])

\* C1 witness: the first of two accounts raised, and the second one's events
\* are in the listing next to the error
C1_Witness ==
    /\ Listing
    /\ Len(calls) = 2
    /\ calls[1].outcome.raised
    /\ ~calls[2].outcome.raised
    /\ result.count = 2
    /\ Len(ErrorsOf(result)) = 1

\* C2: the events of a listing are exactly the multiset union of the event
\* lists returned by the accounts that did not raise, none of them carries
\* the name of an account that raised, and errors holds exactly one entry per
\* account that raised.
C2_ExactUnion ==
    Listing =>
        /\ \A k \in DOMAIN result.events :
              Count(result.events[k], result.events)
                  = Count(result.events[k], ReturnedEvents(calls))
        /\ \A k \in DOMAIN ReturnedEvents(calls) :
              Count(ReturnedEvents(calls)[k], result.events)
                  = Count(ReturnedEvents(calls)[k], ReturnedEvents(calls))
        /\ \A k \in DOMAIN result.events :
              \A i \in FailedCalls : calls[i].calendar /= result.events[k].calendar
        /\ Len(ErrorsOf(result)) = Cardinality(FailedCalls)
        /\ \A i \in FailedCalls :
              Cardinality({ k \in DOMAIN ErrorsOf(result) :
                              ErrorsOf(result)[k][1] = calls[i].calendar }) = 1

\* C2 witness: one account raised, the other returned two events at the
\* same start
C2_Witness ==
    /\ Listing
    /\ Len(calls) = 2
    /\ ~calls[1].outcome.raised
    /\ calls[2].outcome.raised
    /\ Len(calls[1].outcome.value) = 2
    /\ calls[1].outcome.value[1].start = calls[1].outcome.value[2].start
    /\ result.count = 2

\* a <= b in the order of the instants two ISO-8601 texts denote
IsoLeq(a, b) ==
    \/ a = b
    \/ \E p \in DOMAIN a : a[p] < b[p] /\ \A q \in 1..(p - 1) : a[q] = b[q]

\* C3: the events of a listing are sorted non-decreasing by start time.
C3_SortedByStart ==
    Listing =>
        \A i, j \in DOMAIN result.events :
            i < j => IsoLeq(result.events[i].start, result.events[j].start)

\* C3 witness: the providers returned the later event first, and the listing
\* holds both
C3_Witness ==
    /\ Listing
    /\ result.count = 2
    /\ Len(ReturnedEvents(calls)) = 2
    /\ ~IsoLeq(ReturnedEvents(calls)[1].start, ReturnedEvents(calls)[2].start)
    /\ result.events[1] = ReturnedEvents(calls)[2]

\* The number of events the accounts that did not raise returned
ReturnedCount == Len(ReturnedEvents(calls))

\* C4 as stated: len(events) + (accounts that failed) = the sum of the event
\* counts of the accounts that succeeded.
C4_CountPlusFailures ==
    Listing => Len(result.events) + Cardinality(FailedCalls) = ReturnedCount

\* C4 amended: len(events), and the count field, equal the sum of the event
\* counts of the accounts that succeeded; the accounts that failed add
\* nothing to either side.
C4_CountOfSucceeded ==
    Listing =>
        /\ Len(result.events) = ReturnedCount
        /\ result.count = ReturnedCount

\* C4 witness: one account failed and the other returned events
C4_Witness ==
    /\ Listing
    /\ Cardinality(FailedCalls) = 1
    /\ ReturnedCount = 2
    /\ result.count = 2

\* The request names one calendar
SingleCalendar ==
    \/ request.op \in {"get_event", "create_event", "update_event", "delete_event"}
    \/ request.op = "list_events" /\ request.calendar /= ""

\* The account is hidden from the requester: the requester gave an id, the
\* account is owner-restricted and the owner is someone else
Hidden(account, user_id) ==
    user_id /= None /\ account.visibility = "owner" /\ account.owner_id /= user_id

\* The names of the accounts of the registry that user_id may see
VisibleNames(user_id) ==
    { _accounts[i].name : i \in { k \in DOMAIN _accounts : ~Hidden(_accounts[k], user_id) } }

\* The result is an error whose text holds the marker
ErrorWith(res, marker) ==
    "error" \in DOMAIN res /\ \E k \in DOMAIN res.error : res.error[k] = marker

\* C5 as stated: list_calendars(user_id) returns exactly the accounts visible
\* to the requester: all of them without an id, else the shared ones and the
\* requester's own.
C5_ListCalendarsVisible ==
    request.op = "list_calendars" /\ "calendars" \in DOMAIN result =>
        { result.calendars[k].name : k \in DOMAIN result.calendars }
            = VisibleNames(request.user_id)

\* C6 as stated: a single-calendar operation on a calendar hidden from the
\* requester returns an error holding "Access denied" and invokes no method
\* of a backend.
C6_AccessDenied ==
    /\ SingleCalendar
    /\ HasKey(_accounts, request.calendar)
    /\ Hidden(Lookup(_accounts, request.calendar), request.user_id)
    => /\ ErrorWith(result, "Access denied")
       /\ calls = << >>

\* The start and end texts of the request parse (an omitted one counts)
DatesParse ==
    /\ request.start = "" \/ ~_parse_datetime(request.start).raised
    /\ request.end = "" \/ ~_parse_datetime(request.end).raised

\* The result is the unknown-calendar error, naming the calendar asked for
UnknownCalendarError ==
    /\ "error" \in DOMAIN result
    /\ Len(result.error) >= 2
    /\ result.error[1] = "Unknown calendar '"
    /\ result.error[2] = request.calendar

\* C7 as stated: a single-calendar operation naming a calendar that is not in
\* the registry returns the "Unknown calendar" error naming it and touches no
\* backend; such a name never yields the access-denied marker, and a calendar
\* that exists never yields the unknown-calendar error.
C7_UnknownCalendar ==
    SingleCalendar =>
        /\ ~HasKey(_accounts, request.calendar) =>
              /\ UnknownCalendarError
              /\ calls = << >>
              /\ ~ErrorWith(result, "Access denied")
        /\ HasKey(_accounts, request.calendar) => ~UnknownCalendarError

\* C7 amended: with a registry that is not empty, and for list_events with
\* start and end texts that parse, a single-calendar operation naming a
\* calendar that is not in the registry returns the "Unknown calendar" error
\* naming it and touches no backend (an empty registry answers "No calendars
\* configured", and list_events reports an unparseable date first); a name
\* absent from the registry never yields the access-denied marker, and a
\* calendar that exists never yields the unknown-calendar error.
C7_UnknownCalendarNonEmpty ==
    SingleCalendar =>
        /\ ~HasKey(_accounts, request.calendar) =>
              /\ Len(_accounts) > 0 /\ (request.op = "list_events" => DatesParse) =>
                    UnknownCalendarError
              /\ calls = << >>
              /\ ~ErrorWith(result, "Access denied")
        /\ HasKey(_accounts, request.calendar) => ~UnknownCalendarError

\* C7 witness: an operation named a calendar absent from a registry that
\* holds other accounts, and got the unknown-calendar error
C7_Witness ==
    /\ request.op = "delete_event"
    /\ request.calendar = "nonexistent"
    /\ Len(_accounts) = 2
    /\ UnknownCalendarError
    /\ calls = << >>

\* C8 as stated: list_events without a calendar, for a requester with an id,
\* queries only the accounts visible to that requester: no hidden account in
\* calendars_queried, no event of one, no call to one, no error about one.
C8_ListAllVisibleOnly ==
    Listing /\ request.calendar = "" /\ request.user_id /= None =>
        /\ \A k \in DOMAIN result.calendars_queried :
              result.calendars_queried[k] \in VisibleNames(request.user_id)
        /\ \A k \in DOMAIN result.events :
              result.events[k].calendar \in VisibleNames(request.user_id)
        /\ \A i \in DOMAIN calls : calls[i].calendar \in VisibleNames(request.user_id)
        /\ \A k \in DOMAIN ErrorsOf(result) :
              ErrorsOf(result)[k][1] \in VisibleNames(request.user_id)

\* The reminders in the result for event_id of account cal
RemindersFor(cal, event_id) ==
    { k \in DOMAIN result :
        result[k].data.calendar = cal /\ result[k].data.event_id = event_id }

\* The events with event_id among those account cal returned to the scan
ScannedWith(i, event_id) ==
    { k \in DOMAIN calls[i].outcome.value : calls[i].outcome.value[k].id = event_id }

\* The event starts 30 (5) minutes from the clock reading, to the nearest
\* minute, a tie going to the even minute: in seconds, 29.5 and 30.5 minutes
\* both round to 30, 4.5 and 5.5 minutes round to 4 and 6
Due30(e) == 1770 <= e.start - clock /\ e.start - clock <= 1830

Due5(e) == 270 < e.start - clock /\ e.start - clock < 330

\* C9: the scan emits a reminder for an event a scanned account returned
\* exactly when the event is 30 minutes away (urgency "info", the message
\* holding "30 Minuten" and the account's label, dedup_key
\* calendar:<acct>:<id>:30min) or 5 minutes away (urgency "warning",
\* "5 Minuten", ...:5min), and then one reminder only; any other event gets
\* none.
C9_Thresholds ==
    request.op = "get_pending_notifications" =>
        /\ \A i \in SucceededCalls :
              \A k \in DOMAIN calls[i].outcome.value :
                  LET e == calls[i].outcome.value[k]
                      same == ScannedWith(i, e.id)
                      due == { m \in same : Due30(calls[i].outcome.value[m])
                                             \/ Due5(calls[i].outcome.value[m]) }
                  IN Cardinality(RemindersFor(calls[i].calendar, e.id)) = Cardinality(due)
        /\ \A n \in DOMAIN result :
              \E i \in SucceededCalls :
                  \E k \in DOMAIN calls[i].outcome.value :
                      LET e == calls[i].outcome.value[k]
                          label == Lookup(_accounts, calls[i].calendar).label
                      IN /\ result[n].data = [calendar |-> calls[i].calendar, event_id |-> e.id]
                         /\ \/ /\ Due30(e)
                               /\ result[n].urgency = "info"
                               /\ \E p \in DOMAIN result[n].message :
                                     result[n].message[p] = "30 Minuten"
                               /\ \E p \in DOMAIN result[n].message :
                                     result[n].message[p] = label
                               /\ result[n].dedup_key
                                     = "calendar:" \o calls[i].calendar \o ":" \o e.id \o ":30min"
                            \/ /\ Due5(e)
                               /\ result[n].urgency = "warning"
                               /\ \E p \in DOMAIN result[n].message :
                                     result[n].message[p] = "5 Minuten"
                               /\ result[n].dedup_key
                                     = "calendar:" \o calls[i].calendar \o ":" \o e.id \o ":5min"

\* C9 witness: a scan saw an event 29.5 minutes away and one 40 minutes
\* away, and returned the one "info" reminder
C9_Witness ==
    /\ request.op = "get_pending_notifications"
    /\ Len(result) = 1
    /\ result[1].urgency = "info"
    /\ \E i \in SucceededCalls :
          \E k, m \in DOMAIN calls[i].outcome.value :
              /\ calls[i].outcome.value[k].start - clock = 1770
              /\ calls[i].outcome.value[m].start - clock = 2400

\* C10: get_pending_notifications(user_id) returns reminders only for
\* accounts visible to the requester and fetches from no hidden account;
\* without a user_id every account of the registry is scanned.
C10_ScanVisibleOnly ==
    request.op = "get_pending_notifications" =>
        /\ \A n \in DOMAIN result : result[n].data.calendar \in VisibleNames(request.user_id)
        /\ \A i \in DOMAIN calls : calls[i].calendar \in VisibleNames(request.user_id)
        /\ request.user_id = None =>
              [i \in DOMAIN calls |-> calls[i].calendar] = Keys(_accounts)

\* C10 witness: requester 2 scanned a registry that holds the calendar of
\* owner 1 and a shared one, and got a reminder from the shared one only
C10_Witness ==
    /\ request.op = "get_pending_notifications"
    /\ request.user_id = Some(2)
    /\ Keys(_accounts) = << "work", "family" >>
    /\ [i \in DOMAIN calls |-> calls[i].calendar] = << "family" >>
    /\ Len(result) = 1

\* The reminders due for the events the accounts of the log returned, in
\* scan order; an account that raised has none
RECURSIVE ScanReminders(_)
ScanReminders(log) ==
    IF log = << >> THEN << >>
    ELSE (IF Head(log).outcome.raised THEN << >>
          ELSE RemindersOf(Lookup(_accounts, Head(log).calendar), Head(log).outcome.value, clock))
         \o ScanReminders(Tail(log))

\* No event an account returned to the scan is 30 or 5 minutes away
NothingDue ==
    \A i \in SucceededCalls :
        \A k \in DOMAIN calls[i].outcome.value :
            ~Due30(calls[i].outcome.value[k]) /\ ~Due5(calls[i].outcome.value[k])

\* C11: get_pending_notifications returns a list in every case: the empty
\* list with no accounts or no event due; an account whose backend raises is
\* skipped, every visible account behind it is still scanned, and the result
\* holds the reminders of every account that answered.
C11_ScanNeverFails ==
    request.op = "get_pending_notifications" =>
        /\ [i \in DOMAIN calls |-> calls[i].calendar]
              = visible_accounts(_accounts, request.user_id)
        /\ result = ScanReminders(calls)
        /\ Len(result) <= Len(ReturnedEvents(calls))
        /\ _accounts = << >> => result = << >>
        /\ NothingDue => result = << >>

\* C11 witness: the first of two accounts raised during the scan, and the
\* reminder of the second one's event is returned
C11_Witness ==
    /\ request.op = "get_pending_notifications"
    /\ Len(calls) = 2
    /\ calls[1].outcome.raised
    /\ ~calls[2].outcome.raised
    /\ Len(result) = 1
    /\ result[1].data.calendar = calls[2].calendar

\* The texts among the key inputs that hold a ":"
Delimited == {"work:e1", "e1:e1"}

NoFields ==
    /\ request.op = "update_event"
    /\ request.title = "" /\ request.start = "" /\ request.end = ""
    /\ request.description = "" /\ request.location = ""

\* C13 as stated: update_event with every optional field empty returns the
\* "No fields" error and invokes no backend, whether the calendar is known,
\* unknown or the registry empty.
C13_NoFieldsAlways ==
    NoFields => ErrorWith(result, "No fields to update") /\ calls = << >>

\* C13 amended: update_event with every optional field empty returns an
\* error and invokes no backend in every case; the error is the "No fields"
\* one when the calendar is in the registry, and the error of the calendar
\* check ("Unknown calendar", or "No calendars configured" for an empty
\* registry) when it is not: the calendar is checked first.
C13_NoFieldsKnownCalendar ==
    NoFields =>
        /\ calls = << >>
        /\ "error" \in DOMAIN result
        /\ HasKey(_accounts, request.calendar) => result.error = << "No fields to update" >>
        /\ ~HasKey(_accounts, request.calendar) /\ _accounts /= << >> =>
              UnknownCalendarError /\ ~ErrorWith(result, "No fields to update")
        /\ _accounts = << >> =>
              result.error = << "No calendars configured. Set CALENDAR_CONFIG env var." >>

\* C13 witness: update_event without a field, on a calendar of the registry
C13_Witness ==
    /\ NoFields
    /\ HasKey(_accounts, request.calendar)
    /\ ErrorWith(result, "No fields to update")
    /\ calls = << >>

\* C14: delete_event returns {success: true} only when the backend reported
\* that the event was deleted; when the backend reports not-found (false) or
\* raises, the result is an error and not a success.
C14_DeleteSuccessOnlyIfDeleted ==
    request.op = "delete_event" =>
        /\ "success" \in DOMAIN result =>
              /\ result.success
              /\ Len(calls) = 1
              /\ calls[1].method = "delete_event"
              /\ calls[1].calendar = request.calendar
              /\ calls[1].outcome = Returned(TRUE)
        /\ \A i \in DOMAIN calls :
              /\ calls[i].outcome = Returned(FALSE) =>
                    /\ "success" \notin DOMAIN result
                    /\ "error" \in DOMAIN result
                    /\ result.error = << "Event not found: ", request.event_id >>
              /\ calls[i].outcome.raised =>
                    /\ "success" \notin DOMAIN result
                    /\ "error" \in DOMAIN result
                    /\ result.error = << "Failed to delete event: ", calls[i].outcome.error >>
              /\ calls[i].outcome = Returned(TRUE) => "success" \in DOMAIN result
        /\ calls = << >> => "error" \in DOMAIN result

\* C14 witness: the backend reported that there was no such event, and
\* delete_event returned the not-found error
C14_Witness ==
    /\ request.op = "delete_event"
    /\ Len(calls) = 1
    /\ calls[1].outcome = Returned(FALSE)
    /\ ErrorWith(result, "Event not found: ")

\* The fields an account of the given type cannot do without
RequiredFields(type) ==
    CASE type = "ews" -> {"ews_url", "username_env", "password_env"}
      [] type = "google" -> {"credentials_file"}
      [] type = "caldav" -> {"url", "username_env", "password_env"}
      [] OTHER -> {}

\* The name and the type an entry gives, blanks and letter case aside
NameOf(entry) == strip(Get(entry, "name", ""))

TypeOf(entry) == lower(strip(Get(entry, "type", "")))

\* The i-th entry of the file is one load_config must refuse
BadEntry(calendars, i) ==
    \/ NameOf(calendars[i]) = ""
    \/ \E j \in 1..(i - 1) : NameOf(calendars[j]) = NameOf(calendars[i])
    \/ TypeOf(calendars[i]) \notin VALID_TYPES
    \/ Get(calendars[i], "visibility", "shared") \notin VALID_VISIBILITIES
    \/ Get(calendars[i], "visibility", "shared") = "owner" /\ "owner_id" \notin DOMAIN calendars[i]
    \/ ~(RequiredFields(TypeOf(calendars[i])) \subseteq DOMAIN calendars[i])

\* C15: load_config is all-or-nothing: with an entry that lacks a name,
\* repeats the name of an earlier entry, has a type outside ews, google,
\* caldav (letter case aside), a visibility outside shared and owner, is
\* owner-restricted without owner_id or lacks a field its type requires, the
\* load raises an error that says which calendar is at fault, and no
\* registry is returned, the valid entries before the bad one included.
C15_LoadAllOrNothing ==
    request.op = "main" /\ (\E i \in DOMAIN request.calendars : BadEntry(request.calendars, i)) =>
        /\ "exception" \in DOMAIN result
        /\ "loaded" \notin DOMAIN result
        /\ _accounts = << >>
        /\ \E i \in DOMAIN request.calendars :
              /\ BadEntry(request.calendars, i)
              /\ \/ result.exception = << "Calendar missing 'name' field" >>
                 \/ \E k \in DOMAIN result.exception :
                        result.exception[k] = NameOf(request.calendars[i])

\* C15 witness: the file holds a valid entry and then an invalid one; the
\* load raised and the registry is empty
C15_Witness ==
    /\ request.op = "main"
    /\ Len(request.calendars) = 2
    /\ ~BadEntry(request.calendars, 1)
    /\ BadEntry(request.calendars, 2)
    /\ "exception" \in DOMAIN result
    /\ _accounts = << >>

\* C16: in a registry load_config returned, every key is the name of its
\* account and no name occurs twice, every type is a supported one, every
\* visibility is "shared" or "owner" ("shared" when the entry gave none),
\* and an owner-restricted account has an owner_id.
C16_RegistryWellFormed ==
    /\ \A i, j \in DOMAIN _accounts : _accounts[i].name = _accounts[j].name => i = j
    /\ \A i \in DOMAIN _accounts :
          /\ _accounts[i].type \in VALID_TYPES
          /\ _accounts[i].visibility \in VALID_VISIBILITIES
          /\ _accounts[i].visibility = "owner" => _accounts[i].owner_id /= None
    /\ request.op = "main" /\ "loaded" \in DOMAIN result =>
          /\ result.loaded = Keys(_accounts)
          /\ Len(_accounts) = Len(request.calendars)
          /\ \A i \in DOMAIN _accounts :
                /\ _accounts[i].name = NameOf(request.calendars[i])
                /\ "visibility" \notin DOMAIN request.calendars[i] =>
                      _accounts[i].visibility = "shared"

\* C16 witness: a file of two entries loaded, one owner-restricted and one
\* that gave no visibility
C16_Witness ==
    /\ request.op = "main"
    /\ "loaded" \in DOMAIN result
    /\ Len(_accounts) = 2
    /\ _accounts[1].visibility = "owner"
    /\ "visibility" \notin DOMAIN request.calendars[2]
    /\ _accounts[2].visibility = "shared"

\* C17: _get_backend returns None for a name that is not in the registry;
\* for a name of the registry the client is constructed once at most: a
\* cached handle is returned as it is and the cache is left alone, no entry
\* of the cache is ever replaced or dropped, and the cache holds as many
\* entries as backends were constructed.
C17_BackendMemoized ==
    /\ [](\A c \in CalendarInputs :
            LET got == _get_backend(c, _accounts, _backends)
            IN /\ ~HasKey(_accounts, c) =>
                     ~got.raised /\ got.value = None /\ got.backends = _backends
               /\ c \in DOMAIN _backends =>
                     ~got.raised /\ got.value = Some(_backends[c]) /\ got.backends = _backends)
    /\ [](/\ \A n \in DOMAIN _backends :
               /\ HasKey(_accounts, n)
               /\ _backends[n].name = n
               /\ _backends[n].instance \in 1..Cardinality(DOMAIN _backends)
          /\ \A n, m \in DOMAIN _backends :
               _backends[n].instance = _backends[m].instance => n = m)
    /\ [][\A n \in DOMAIN _backends :
             n \in DOMAIN _backends' /\ _backends'[n] = _backends[n]]_vars

\* C17 witness: get_event used the backend that was constructed first while
\* the cache holds a second one, which an earlier request constructed: the
\* handle of this request came from the cache
C17_Witness ==
    /\ request.op = "get_event"
    /\ Len(calls) = 1
    /\ Cardinality(DOMAIN _backends) = 2
    /\ _backends[request.calendar].instance = 1

\* The account refers to credential variables the process lacks
NoCredentials(account) ==
    /\ account.type \in {"ews", "caldav"}
    /\ \/ environ_get(account.config["username_env"]) = ""
       \/ environ_get(account.config["password_env"]) = ""

\* C18: an account whose credential variables are absent is loaded all the
\* same: load_config warns about it, does not fail and constructs no
\* backend. The failure comes at use: every call to that account's backend
\* raises and the tool reports the error (an errors entry of the listing for
\* list_events, an error result for get, create, update and delete), while
\* the other accounts of the same request are fetched and their events
\* returned.
C18_CredentialsDeferred ==
    /\ request.op = "main" /\ (\A i \in DOMAIN request.calendars : ~BadEntry(request.calendars, i)) =>
          /\ "loaded" \in DOMAIN result
          /\ Len(_accounts) = Len(request.calendars)
          /\ _backends = EmptyDict
          /\ \A i \in DOMAIN _accounts :
                NoCredentials(_accounts[i]) <=>
                    \E k \in DOMAIN result.warnings : result.warnings[k][1] = _accounts[i].name
    /\ \A i \in DOMAIN calls :
          NoCredentials(Lookup(_accounts, calls[i].calendar)) =>
              /\ calls[i].outcome.raised
              /\ request.op \in {"get_event", "create_event", "update_event", "delete_event"} =>
                    /\ "error" \in DOMAIN result
                    /\ "success" \notin DOMAIN result
                    /\ "event" \notin DOMAIN result
              /\ Listing =>
                    \E k \in DOMAIN ErrorsOf(result) :
                        ErrorsOf(result)[k] = << calls[i].calendar, ": ", calls[i].outcome.error >>
    /\ Listing =>
          \A i \in SucceededCalls :
              /\ ~NoCredentials(Lookup(_accounts, calls[i].calendar))
              /\ \A k \in DOMAIN calls[i].outcome.value :
                    \E m \in DOMAIN result.events :
                        result.events[m] = _event_to_dict(calls[i].outcome.value[k])

\* C18 witness: a listing over an account with credentials, which returned
\* an event, and one without, whose first use failed
C18_Witness ==
    /\ Listing
    /\ Len(calls) = 2
    /\ ~NoCredentials(Lookup(_accounts, calls[1].calendar))
    /\ ~calls[1].outcome.raised
    /\ NoCredentials(Lookup(_accounts, calls[2].calendar))
    /\ calls[2].outcome.raised
    /\ calls[2].outcome.error = "credentials not set"
    /\ result.count >= 1
    /\ Len(ErrorsOf(result)) = 1

\* C19: once main has loaded it, no tool operation, whether it succeeds or
\* returns an error, adds, removes or changes an entry of the registry.
C19_RegistryReadOnly ==
    [][request.op /= "start" => _accounts' = _accounts]_vars

\* C19 witness: create_event succeeded on a registry of two accounts
C19_Witness ==
    /\ request.op = "create_event"
    /\ "success" \in DOMAIN result
    /\ Len(_accounts) = 2

\* C20: within one list_events request the accounts are fetched one after
\* the other in registry order: a fetch has finished, with its events or its
\* error, before the next one is issued, so that one backend call at most is
\* outstanding at any step of the request.
C20_SequentialFetch ==
    request.op = "list_events" =>
        /\ \A i \in DOMAIN calls : calls[i].started < calls[i].finished
        /\ \A i, j \in DOMAIN calls : i < j => calls[i].finished < calls[j].started
        /\ \A t \in 0..(2 * Len(calls)) :
              Cardinality({ i \in DOMAIN calls :
                              calls[i].started <= t /\ t < calls[i].finished }) <= 1
        /\ Listing /\ request.calendar = "" =>
              [i \in DOMAIN calls |-> calls[i].calendar] = Keys(_accounts)

\* C20 witness: a listing over two accounts, the second fetch issued behind
\* the end of the first
C20_Witness ==
    /\ Listing
    /\ Len(calls) = 2
    /\ calls[1].finished = 2
    /\ calls[2].started = 3
    /\ calls[1].calendar = _accounts[1].name
    /\ calls[2].calendar = _accounts[2].name

\* The request is one of the operations on a single event of one calendar
SingleEventOp == request.op \in {"get_event", "create_event", "update_event", "delete_event"}

\* C21: there are no retries: within one request the backend of an account
\* is invoked once at most, also when the call raised, and every raise is
\* reported exactly once: by one entry of errors in a listing, by the one
\* error result of an operation on a single event.
C21_NoRetries ==
    /\ \A i, j \in DOMAIN calls : calls[i].calendar = calls[j].calendar => i = j
    /\ SingleEventOp =>
          /\ Len(calls) <= 1
          /\ \A i \in DOMAIN calls :
                /\ calls[i].calendar = request.calendar
                /\ calls[i].method = request.op
                /\ calls[i].outcome.raised =>
                      /\ "error" \in DOMAIN result
                      /\ Count(calls[i].outcome.error, result.error) = 1
    /\ request.op = "list_events" =>
          /\ \A i \in DOMAIN calls : calls[i].method = "list_events"
          /\ calls /= << >> => Listing
          /\ Listing =>
                /\ Len(ErrorsOf(result)) = Cardinality(FailedCalls)
                /\ \A i \in FailedCalls :
                      Count(<< calls[i].calendar, ": ", calls[i].outcome.error >>,
                            ErrorsOf(result)) = 1

\* C21 witness: the provider raised on create_event; the one call is in the
\* log and the one error in the result
C21_Witness ==
    /\ request.op = "create_event"
    /\ Len(calls) = 1
    /\ calls[1].outcome = Raised("Connection failed")
    /\ result = [error |-> << "Failed to create event: ", "Connection failed" >>]

\* C22: list_events never fails as a whole because of a backend: no
\* exception leaves it, whatever the backends of the queried accounts do. A
\* handle is constructed without a failure, the connection it opens at its
\* first use fails inside the fetch; the failing account is recorded in
\* errors and the events of the other accounts are returned.
C22_ListEventsNeverRaises ==
    /\ \A i \in DOMAIN _accounts : ~_init_backend(_accounts[i]).raised
    /\ request.op = "list_events" =>
          /\ "exception" \notin DOMAIN result
          /\ "events" \in DOMAIN result \/ "error" \in DOMAIN result
          /\ "error" \in DOMAIN result => calls = << >>
          /\ Listing =>
                /\ \A i \in FailedCalls :
                      \E k \in DOMAIN ErrorsOf(result) :
                          ErrorsOf(result)[k][1] = calls[i].calendar
                /\ \A k \in DOMAIN ReturnedEvents(calls) :
                      \E m \in DOMAIN result.events :
                          result.events[m] = ReturnedEvents(calls)[k]

\* C22 witness: a listing over two accounts whose handles were both made
\* for it; the first returned two events, the connection of the second
\* failed at its first use, and the listing holds the events and the error
C22_Witness ==
    /\ Listing
    /\ request.calendar = ""
    /\ Len(calls) = 2
    /\ Len(ReturnedEvents(calls)) = 2
    /\ calls[2].outcome = Raised("credentials not set")
    /\ _backends[calls[2].calendar].instance = 2
    /\ result.count = 2
    /\ result.errors = << << calls[2].calendar, ": ", "credentials not set" >> >>

\* The text an operation on a single event puts before the message of the
\* exception it caught
FailedTo(op) ==
    CASE op = "create_event" -> "Failed to create event: "
      [] op = "update_event" -> "Failed to update event: "
      [] op = "delete_event" -> "Failed to delete event: "
      [] op = "get_event" -> "Failed to get event: "

\* C23: in create_event, update_event, delete_event and get_event an
\* exception of the backend call becomes an error result that carries the
\* message of the exception: the result is no success and holds no event,
\* and no exception leaves the tool.
C23_SingleOpErrorSurfaced ==
    SingleEventOp =>
        /\ "exception" \notin DOMAIN result
        /\ \A i \in FailedCalls :
              /\ DOMAIN result = {"error"}
              /\ result.error = << FailedTo(request.op), calls[i].outcome.error >>
        /\ "success" \in DOMAIN result \/ "event" \in DOMAIN result =>
              Len(calls) = 1 /\ ~calls[1].outcome.raised

\* C23 witness: the backend of update_event raised, and the result is the
\* error with its message
C23_Witness ==
    /\ request.op = "update_event"
    /\ Len(calls) = 1
    /\ calls[1].outcome = Raised("Connection failed")
    /\ result = [error |-> << "Failed to update event: ", "Connection failed" >>]

\* The text was given for a date and is none. list_events and update_event
\* take "" as an omitted argument; create_event requires both dates and
\* parses whatever it gets.
Unparseable(text) ==
    /\ text \notin DOMAIN ParsableDates
    /\ text /= "" \/ request.op = "create_event"

\* The request carries a start or an end that does not parse
BadDate ==
    /\ request.op \in {"list_events", "create_event", "update_event"}
    /\ Unparseable(request.start) \/ Unparseable(request.end)

\* The error that names the start, or the end, of the request
InvalidStart == [error |-> << "Invalid start date: ", request.start >>]

InvalidEnd == [error |-> << "Invalid end date: ", request.end >>]

\* C24 as stated: an unparseable start or end given to list_events,
\* create_event or update_event yields an error result that names the
\* invalid value, and no backend method is invoked for the request.
C24_InvalidDate ==
    BadDate =>
        /\ calls = << >>
        /\ \/ Unparseable(request.start) /\ result = InvalidStart
           \/ Unparseable(request.end) /\ result = InvalidEnd

\* C24 amended: an unparseable start or end yields an error result and no
\* backend method is invoked; the error names the invalid value (the start
\* when both are invalid) in list_events always, and in create_event and
\* update_event when the named calendar is in the registry: these two check
\* the calendar first and return its error otherwise.
C24_InvalidDateKnownCalendar ==
    BadDate =>
        /\ calls = << >>
        /\ "error" \in DOMAIN result
        /\ request.op = "list_events" \/ HasKey(_accounts, request.calendar) =>
              IF Unparseable(request.start) THEN result = InvalidStart ELSE result = InvalidEnd
        /\ request.op /= "list_events" /\ ~HasKey(_accounts, request.calendar) =>
              result = _validate_calendar(request.calendar, _accounts)[1]

\* C24 witness: create_event on a calendar of the registry with a start that
\* parses and an end that does not
C24_Witness ==
    /\ request.op = "create_event"
    /\ HasKey(_accounts, request.calendar)
    /\ request.start = "2026-02-13"
    /\ request.end = "not-a-date"
    /\ result = [error |-> << "Invalid end date: ", "not-a-date" >>]
    /\ calls = << >>

\* The serialized events a result holds: those of a listing, or the one
\* event of get_event, create_event and update_event
EventsOf(res) ==
    IF "events" \in DOMAIN res THEN { res.events[k] : k \in DOMAIN res.events }
    ELSE IF "event" \in DOMAIN res THEN { res.event }
    ELSE {}

\* C25 as stated: every event the tools return has start <= end; create_event
\* and update_event return no success whose event ends before it starts,
\* whatever start and end the caller passes.
C25_StartNotAfterEnd ==
    request.op \in {"list_events", "get_event", "create_event", "update_event"} =>
        \A e \in EventsOf(result) : IsoLeq(e.start, e.end)

\* The day an instant falls on, counted from 2026-02-13
DayOf(t) == t \div 86400

fromisoformat(text) == DateTime(text[1], text[2], text[3], text[4])

\* C27: round trip of create_event. The title, description and location of
\* the request reach the backend as they are, start and end as the instants
\* the texts denote; every field of the CalendarEvent the backend returns is
\* in the serialized event of the result as it is, start and end as ISO-8601
\* texts of the same instants.
C27_CreateRoundTrip ==
    request.op = "create_event" /\ calls /= << >> =>
        /\ calls[1].args = << request.title, ParsableDates[request.start],
                              ParsableDates[request.end], request.description,
                              request.location >>
        /\ ~calls[1].outcome.raised =>
              LET event == calls[1].outcome.value
              IN /\ DOMAIN result = {"success", "event"}
                 /\ result.success
                 /\ DOMAIN result.event = DOMAIN event
                 /\ \A f \in DOMAIN event \ {"start", "end"} : result.event[f] = event[f]
                 /\ fromisoformat(result.event.start) = event.start
                 /\ fromisoformat(result.event.end) = event.end
                 /\ result.event.title = request.title
                 /\ result.event.description = request.description
                 /\ result.event.location = request.location
                 /\ fromisoformat(result.event.start) = ParsableDates[request.start]
                 /\ fromisoformat(result.event.end) = ParsableDates[request.end]

\* C27 witness: an event with a description and a location, from 09:00 of
\* 2026-02-14, was created and came back
C27_Witness ==
    /\ request.op = "create_event"
    /\ request.start = "2026-02-14T09:00:00"
    /\ request.description = "Raum 1"
    /\ request.location = "Raum 1"
    /\ "success" \in DOMAIN result
    /\ result.event.start = << 1, 9, 0, 0 >>
    /\ result.event.location = "Raum 1"
    /\ result.event.id = "new-1"

\* A tool of server.py was called while the registry is empty
EmptyRegistryCall ==
    /\ _accounts = << >>
    /\ request.op \in {"list_calendars", "list_events", "create_event", "update_event",
                        "delete_event", "get_event"}

\* The error of _validate_calendar for an empty registry
NoCalendars == [error |-> << "No calendars configured. Set CALENDAR_CONFIG env var." >>]

\* C28 as stated: with an empty registry list_calendars returns an error;
\* list_events with no calendar named is no error and returns count 0 with
\* calendars_queried empty; every operation that names a calendar returns
\* the "No calendars configured" error, not the "Unknown calendar" one; none
\* of them invokes or constructs a backend.
C28_EmptyRegistry ==
    EmptyRegistryCall =>
        /\ calls = << >>
        /\ _backends = EmptyDict
        /\ request.op = "list_calendars" => "error" \in DOMAIN result
        /\ request.op = "list_events" /\ request.calendar = "" =>
              /\ "error" \notin DOMAIN result
              /\ Listing
              /\ result.count = 0
              /\ result.calendars_queried = << >>
        /\ SingleCalendar => result = NoCalendars /\ ~UnknownCalendarError

\* C28 amended: as stated, for a list_events whose start and end parse; a
\* list_events with an unparseable start or end returns the invalid-date
\* error, with or without a calendar named, and touches no backend either.
C28_EmptyRegistryDatesParse ==
    EmptyRegistryCall =>
        /\ calls = << >>
        /\ _backends = EmptyDict
        /\ request.op = "list_calendars" => result = [error |-> << "No calendars configured" >>]
        /\ request.op = "list_events" /\ ~DatesParse =>
              IF Unparseable(request.start) THEN result = InvalidStart ELSE result = InvalidEnd
        /\ request.op = "list_events" /\ DatesParse /\ request.calendar = "" =>
              /\ "error" \notin DOMAIN result
              /\ "errors" \notin DOMAIN result
              /\ Listing
              /\ result.count = 0
              /\ result.events = << >>
              /\ result.calendars_queried = << >>
        /\ SingleCalendar /\ (request.op = "list_events" => DatesParse) =>
              result = NoCalendars /\ ~UnknownCalendarError

\* C28 witness: get_event named a calendar while the registry is empty
C28_Witness ==
    /\ _accounts = << >>
    /\ request.op = "get_event"
    /\ request.calendar = "work"
    /\ result = NoCalendars
    /\ calls = << >>
    /\ _backends = EmptyDict

\* The coroutines suspended on a backend call
Suspended == { i \in DOMAIN request.tasks : request.tasks[i].pc = "awaiting" }

\* C29: with the tool invocations interleaved at their awaits, the backend
\* of an account is still constructed once at most and every invocation uses
\* the handle of the cache: no interleaving builds two handles for one
\* account name.
C29_ConstructedOnceInterleaved ==
    /\ \A i, j \in DOMAIN calls : calls[i].calendar = calls[j].calendar => i = j
    /\ Len(calls) = Cardinality(DOMAIN _backends)
    /\ \A i \in DOMAIN calls :
          /\ calls[i].calendar \in DOMAIN _backends
          /\ _backends[calls[i].calendar] = calls[i].outcome.value
    /\ \A i \in Suspended :
          /\ request.tasks[i].current \in DOMAIN _backends
          /\ request.tasks[i].handle = Some(_backends[request.tasks[i].current])
    /\ \A i, j \in Suspended :
          request.tasks[i].current = request.tasks[j].current =>
              request.tasks[i].handle = request.tasks[j].handle

\* C29 witness: two invocations are suspended on the same account, a listing
\* that has another account still to query and a get_event; both hold the
\* one handle that was constructed for it
C29_Witness ==
    /\ Suspended = {1, 2}
    /\ request.tasks[1].op = "list_events"
    /\ request.tasks[1].todo /= << >>
    /\ request.tasks[2].op = "get_event"
    /\ request.tasks[1].current = request.tasks[2].current
    /\ request.tasks[1].handle = request.tasks[2].handle
    /\ Len(calls) = 1

\* The request was rejected before it reached a backend: it names a calendar
\* that is not in the registry, carries a date that does not parse, or is an
\* update without a field
Rejected ==
    \/ SingleCalendar /\ ~HasKey(_accounts, request.calendar)
    \/ BadDate
    \/ NoFields

\* The accounts whose backend the request called
Queried == { calls[i].calendar : i \in DOMAIN calls }

\* C30: the cache starts empty and its keys are names of the registry at
\* all times. An operation adds an entry only for an account it queries and
\* leaves every other entry as it is: an operation on the single calendar c
\* adds the entry of c at most, and a request rejected before it reaches a
\* backend (unknown calendar, invalid date, no fields to update) leaves the
\* cache unchanged.
C30_CacheFrame ==
    /\ [](request.op = "start" => _backends = EmptyDict)
    /\ [](\A n \in DOMAIN _backends : HasKey(_accounts, n))
    /\ [][/\ \A n \in DOMAIN _backends :
                n \in DOMAIN _backends' /\ _backends'[n] = _backends[n]
          /\ (DOMAIN _backends' \ DOMAIN _backends) \subseteq Queried'
          /\ SingleCalendar' =>
                (DOMAIN _backends' \ DOMAIN _backends) \subseteq {request'.calendar}
          /\ Rejected' => _backends' = _backends /\ calls' = << >>]_vars

\* C30 witness: an update without a field on a calendar of the registry,
\* while the cache holds the entry an earlier operation made for another
\* account: the rejected request has added none
C30_Witness ==
    /\ NoFields
    /\ HasKey(_accounts, request.calendar)
    /\ Cardinality(DOMAIN _backends) = 1
    /\ request.calendar \notin DOMAIN _backends
    /\ calls = << >>

====
